---- MODULE Spec2Model ----
(***************************************************************************)
(* The large-object (SLO / DLO) middleware of the hummingbird proxy,       *)
(* proxyserver/middleware/largeobject.go, as a state machine.              *)
(*                                                                         *)
(* One client request is served at a time (the middleware keeps no state   *)
(* between requests).  The variable trace records, in order, everything    *)
(* the handler does to the outside: the status lines and body writes it    *)
(* puts on the client's response writer, the subrequests it issues and     *)
(* its calls to the next handler.                                          *)
(*                                                                         *)
(* Representation of strings that the code takes apart:                    *)
(*  - a path ("/c/s1") is the sequence of its "/"-separated pieces         *)
(*    (<<"", "c", "s1">>); the empty string is <<"">>;                     *)
(*  - a byte-range string ("0-4", "0-1,3-4") is the sequence of its        *)
(*    comma separated "a-b" pieces (<< <<0,4>> >>); "" is << >>;           *)
(*  - a JSON text is [kind, items]: "null", an "array" of encoded items,   *)
(*    "garbage" (anything else) or "empty" (no bytes);                     *)
(*  - hex(md5(x)) is [md5 |-> x]: an injective function of what was fed.   *)
(***************************************************************************)
EXTENDS Integers, Sequences, FiniteSets, TLC

VARIABLES
    segs,           \* backend: what a HEAD of each segment object answers
    store,          \* backend: the manifest object last persisted by SLO PUT
    req,            \* the client request being served
    pc,             \* where the handler is
    trace,          \* the handler's outside-visible events, in order
    manifest,       \* local: the manifest being walked (PUT, DELETE, GET)
    idx,            \* local: position of the loop over manifest (1-based)
    errs,           \* handleSloPut: errs
    totalSize,      \* handleSloPut: totalSize
    sloEtag,        \* handleSloPut: what was fed to the md5 sloEtag
    toPutManifest,  \* handleSloPut: toPutManifest
    sw,             \* GET/HEAD: the xloIdentifyWriter
    reqRange,       \* feedOutSegments: reqRange
    hist            \* round trip bookkeeping: the PUT whose raw form is re-PUT

vars == <<segs, store, req, pc, trace, manifest, idx, errs, totalSize,
          sloEtag, toPutManifest, sw, reqRange, hist>>

---------------------------------------------------------------------------
(* Bounds of the model *)

\* longest client manifest / stored manifest / listing
MaxItems == 2
\* largest segment object size
MaxBytes == 3

---------------------------------------------------------------------------
(* Small helpers *)

Min(a, b) == IF a < b THEN a ELSE b

Max(a, b) == IF a > b THEN a ELSE b

SeqsUpTo(S, n) == UNION {[1..k -> S] : k \in 0..n}

RECURSIVE SumSeq(_)
SumSeq(s) ==
    IF s = <<>> THEN 0
    ELSE IF Len(s) = 1 THEN s[1]
    ELSE LET half == Len(s) \div 2
         IN  SumSeq(SubSeq(s, 1, half)) + SumSeq(SubSeq(s, half + 1, Len(s)))

RECURSIVE Flatten(_)
Flatten(ss) == IF ss = <<>> THEN <<>> ELSE ss[1] \o Flatten(Tail(ss))

EmptyStr == <<"">>

NoRange == <<>>

\* fmt.Sprintf("%x", md5...) of what was written into the hash
Digest(fed) == [md5 |-> fed]

---------------------------------------------------------------------------
(* common.ParseRange, common.ParseProxyPath, srv.SimpleErrorResponse:      *)
(* code of the repository outside the middleware file.                     *)

\* "a-b" is malformed when the end lies before the begin
MalformedSpec(p) == p[1] < 0 \/ p[2] < p[1]

\* ParseRange(rangeHeader, fileSize): the inclusive wire ranges "a-b" that
\* start inside [0, fileSize), as half-open {Start, End} clipped to fileSize;
\* an error when the header is malformed or no range lies inside the file.
ParseRange(rangeStr, fileSize) ==
    LET inside == SelectSeq(rangeStr, LAMBDA p : p[1] < fileSize)
        bad    == \/ rangeStr = NoRange
                  \/ \E k \in DOMAIN rangeStr : MalformedSpec(rangeStr[k])
                  \/ inside = <<>>
    IN  [err    |-> bad,
         ranges |-> IF bad THEN <<>>
                    ELSE [k \in DOMAIN inside |->
                            [Start |-> inside[k][1],
                             End   |-> Min(inside[k][2] + 1, fileSize)]]]

\* ParseProxyPath("/v1/account/container/object"): the URL path is kept as
\* the pieces after /v1/.
ParseProxyPath(urlPath) ==
    [err       |-> urlPath = <<>>,
     account   |-> IF Len(urlPath) >= 1 THEN urlPath[1] ELSE "",
     container |-> IF Len(urlPath) >= 2 THEN urlPath[2] ELSE "",
     object    |-> IF Len(urlPath) >= 3 THEN SubSeq(urlPath, 3, Len(urlPath)) ELSE EmptyStr]

\* Events of a request.  by: who acted ("xlo" the middleware itself, "next"
\* the next handler, "sub" a subrequest writing into the sink it was given).
\* A WriteHeader / Write event is a call on the client's response writer.
Event(op, by, status, method, path, query, hdr, sink, data) ==
    [op |-> op, by |-> by, status |-> status, method |-> method, path |-> path,
     query |-> query, hdr |-> hdr, sink |-> sink, data |-> data]

NoHdr == [Range |-> NoRange]

WriteHeaderEv(by, status, hdr) ==
    Event("WriteHeader", by, status, "", <<>>, "", hdr, "client", <<>>)

WriteEv(by, data) == Event("Write", by, 0, "", <<>>, "", NoHdr, "client", data)

NextEv == Event("Next", "xlo", 0, "", <<>>, "", NoHdr, "client", <<>>)

\* a subrequest; status is what the backend answered to it and, for a
\* capture sink, answer is the body the sink captured
SubrequestEv(method, path, query, hdr, sink, data) ==
    Event("Subrequest", "xlo", 0, method, path, query, hdr, sink, data)

Answered(ev, status, body) ==
    [op |-> ev.op, by |-> ev.by, status |-> status, method |-> ev.method,
     path |-> ev.path, query |-> ev.query, hdr |-> ev.hdr, sink |-> ev.sink,
     data |-> ev.data, answer |-> body]

\* a subrequest made for entry at of the manifest
AtEntry(ev, at) ==
    [op |-> ev.op, by |-> ev.by, status |-> ev.status, method |-> ev.method,
     path |-> ev.path, query |-> ev.query, hdr |-> ev.hdr, sink |-> ev.sink,
     data |-> ev.data, answer |-> ev.answer, at |-> at]

\* a body byte is [obj, off]: byte off of object obj; the text of an error
\* response is one opaque byte
ErrorBody(msg) == <<[obj |-> <<msg>>, off |-> 0]>>

\* srv.SimpleErrorResponse(w, status, body) / srv.StandardResponse(w, status):
\* one status line and one body write on w
SimpleErrorResponse(status, msg) ==
    <<WriteHeaderEv("xlo", status, NoHdr), WriteEv("xlo", ErrorBody(msg))>>

---------------------------------------------------------------------------
(* Segment descriptors: segItem, segLenHash, makeRange, splitSegPath *)

\* strings.TrimLeft(thePath, "/")
RECURSIVE TrimLeftSlash(_)
TrimLeftSlash(p) ==
    IF Len(p) > 1 /\ p[1] = "" THEN TrimLeftSlash(Tail(p)) ELSE p

splitSegPath(thePath) ==
    LET t == TrimLeftSlash(thePath)
    IN  IF Len(t) < 2 \/ t[1] = "" \/ Tail(t) = EmptyStr
        THEN [err |-> TRUE, container |-> "", object |-> EmptyStr]
        ELSE [err |-> FALSE, container |-> t[1], object |-> Tail(t)]

\* http.NewRequest(method, "/v1/<account>/<container>/<object>", ...) fails
\* when the URL does not parse, e.g. on an invalid percent escape
BadEscape == "%zz"

UrlBuilds(path) == \A k \in DOMAIN path : path[k] # BadEscape

makeRange(si) ==
    LET p == ParseRange(si.Range, si.Bytes)
    IN  IF si.Range # NoRange /\ ~p.err /\ Len(p.ranges) = 1
        THEN p.ranges[1]
        ELSE [Start |-> 0, End |-> si.Bytes]

\* the hash token is "<hash>" or "<hash>:<range>;"
HashToken(hash, range) == [h |-> hash, r |-> range]

segLenHash(si) ==
    IF si.Range # NoRange
    THEN [len  |-> makeRange(si).End - makeRange(si).Start,
          hash |-> HashToken(si.Hash, si.Range)]
    ELSE [len |-> si.Bytes, hash |-> HashToken(si.Hash, NoRange)]

\* encoding/json of []segItem: range and sub_slo are omitempty, and a nil
\* slice is written as null
MarshalSegItem(si) ==
    [hash |-> si.Hash, last_modified |-> si.LastModified, bytes |-> si.Bytes,
     name |-> si.Name, content_type |-> si.ContentType,
     range   |-> IF si.Range = NoRange THEN <<>> ELSE <<si.Range>>,
     sub_slo |-> IF si.SubSlo THEN <<TRUE>> ELSE <<>>]

UnmarshalSegItem(j) ==
    [Hash |-> j.hash, LastModified |-> j.last_modified, Bytes |-> j.bytes,
     Name |-> j.name, ContentType |-> j.content_type,
     Range  |-> IF j.range = <<>> THEN NoRange ELSE j.range[1],
     SubSlo |-> j.sub_slo # <<>>]

JsonNull == [kind |-> "null", items |-> <<>>]

JsonGarbage == [kind |-> "garbage", items |-> <<>>]

\* no bytes at all
JsonEmpty == [kind |-> "empty", items |-> <<>>]

JsonArray(items) == [kind |-> "array", items |-> items]

MarshalManifest(list) ==
    IF list = <<>> THEN JsonNull
    ELSE JsonArray([k \in DOMAIN list |-> MarshalSegItem(list[k])])

\* json.Unmarshal(body, &manifest) for manifest []segItem
UnmarshalManifest(body) ==
    IF body.kind \in {"garbage", "empty"} THEN [err |-> TRUE, manifest |-> <<>>]
    ELSE [err |-> FALSE,
          manifest |-> [k \in DOMAIN body.items |-> UnmarshalSegItem(body.items[k])]]

---------------------------------------------------------------------------
(* The backend and the requests *)

Account == "a"

SelfPath == <<Account, "c", "big">>

\* an Etag header as the backend or the client sends it: v, quoted or not;
\* strings.Trim(etag, "\"") is v
EtagHdr(q, v) == [present |-> TRUE, q |-> q, v |-> v]

NoEtagHdr == [present |-> FALSE, q |-> FALSE, v |-> ""]

\* strconv.ParseInt of a Content-Length header: ok is FALSE when it is not
\* a number
HeadResp(status, clOk, cl, etag, slo) ==
    [status |-> status, ContentLength |-> [ok |-> clOk, n |-> cl],
     Etag |-> etag, Slo |-> slo, LastModified |-> "t0", ContentType |-> "text/plain"]

NotFoundResp == HeadResp(404, FALSE, 0, NoEtagHdr, FALSE)

S1 == <<"c", <<"s1">>>>

S2 == <<"c", <<"s2">>>>

S1Size == MaxBytes - 1

SegStates ==
    [{S1, S2} -> {NotFoundResp}]
    \cup {[k \in {S1, S2} |-> IF k = S1 THEN a ELSE b] :
            a \in {NotFoundResp, HeadResp(200, TRUE, S1Size, EtagHdr(TRUE, "e1"), FALSE)},
            b \in {HeadResp(200, TRUE, MaxBytes, EtagHdr(FALSE, "e2"), FALSE),
                   HeadResp(200, FALSE, 0, EtagHdr(FALSE, "e2"), FALSE),
                   HeadResp(200, TRUE, MaxBytes, EtagHdr(TRUE, "e2"), TRUE)}}

\* the answer of the backend to HEAD /v1/a/<container>/<object>
HeadOf(container, object) ==
    IF <<container, object>> \in DOMAIN segs THEN segs[<<container, object>>]
    ELSE NotFoundResp

\* a client manifest item as JSON text: ok is FALSE when it does not decode
\* into a sloPutManifest
PutItemJson(ok, path, etag, size, range) ==
    [ok |-> ok, path |-> path, etag |-> etag, size_bytes |-> size,
     range |-> IF range = NoRange THEN <<>> ELSE <<range>>]

ClientItems ==
    { PutItemJson(TRUE, <<"", "c", "s1">>, "", 0, NoRange),
      PutItemJson(TRUE, <<"c", "s1">>, "e1", S1Size, NoRange),
      PutItemJson(TRUE, <<"", "c", "s1">>, "wrong", 0, NoRange),
      PutItemJson(TRUE, <<"", "c", "s1">>, "", S1Size + 1, NoRange),
      PutItemJson(TRUE, <<"", "c", "s2">>, "e2", MaxBytes, << <<1, MaxBytes + 2>> >>),
      PutItemJson(TRUE, <<"", "c", "s2">>, "", 0, << <<0, 0>> >>),
      PutItemJson(TRUE, <<"", "c", "s2">>, "", 0, << <<MaxBytes + 1, MaxBytes + 2>> >>),
      PutItemJson(TRUE, <<"", "c", "s2">>, "", 0, << <<0, 0>>, <<1, 1>> >>),
      PutItemJson(TRUE, <<"", "c", "big">>, "", 0, NoRange),
      PutItemJson(TRUE, <<"c", "">>, "", 0, NoRange),
      PutItemJson(TRUE, <<"s1">>, "", 0, NoRange),
      PutItemJson(TRUE, <<"", "c", BadEscape>>, "", 0, NoRange),
      PutItemJson(TRUE, <<"", "c", "s1">>, "", -1, NoRange),
      PutItemJson(FALSE, EmptyStr, "", 0, NoRange) }

ClientBodies ==
    {JsonNull, JsonGarbage} \cup {JsonArray(s) : s \in SeqsUpTo(ClientItems, MaxItems)}

\* no Etag header on a request whose Etag is compared with a digest
NoDigestHdr == [present |-> FALSE, q |-> FALSE, v |-> Digest(<<>>)]

ClientEtags ==
    { NoDigestHdr,
      EtagHdr(TRUE, Digest(<<HashToken("e1", NoRange)>>)),
      EtagHdr(FALSE, Digest(<<>>)) }

Request(method, funcName, format, path, range, cond, etag, cl, te, copy, xom, ctype, body) ==
    [method |-> method, funcName |-> funcName, format |-> format, path |-> path,
     Range |-> range, Conditional |-> cond, Etag |-> etag, ContentLength |-> cl,
     TransferEncoding |-> te, XCopyFrom |-> copy, XObjectManifest |-> xom,
     ContentType |-> ctype, body |-> body]

OneItemBody == JsonArray(<<PutItemJson(TRUE, <<"", "c", "s1">>, "", 0, NoRange)>>)

PutRequests ==
    { Request("PUT", "put", "", SelfPath, NoRange, FALSE, e, "10", "", "", EmptyStr, "", b) :
        e \in ClientEtags, b \in ClientBodies }
    \cup
    { Request("PUT", f, "", p, NoRange, FALSE, NoDigestHdr, cl, te, cp, xom, ct, OneItemBody) :
        f \in {"put", ""}, p \in {SelfPath, <<Account, "c">>},
        cl \in {"", "10"}, te \in {"", "chunked"}, cp \in {"", "c/o"},
        xom \in {EmptyStr, <<"c", "p_">>, <<"", "c", "p_">>}, ct \in {"", "image/png"} }

maxManifestLen == 1000

\* client manifests of n items, around the bound of the parser
LongBody(n) ==
    JsonArray([k \in 1..n |-> PutItemJson(TRUE, <<"", "c", "s1">>, "", 0, NoRange)])

LongRequests ==
    { Request("PUT", "put", "", SelfPath, NoRange, FALSE, NoDigestHdr, "10", "", "",
              EmptyStr, "", LongBody(n)) :
        n \in {maxManifestLen + 1, maxManifestLen + 2} }

\* a header that holds a digest / a decimal number: present is FALSE when
\* the header is not set, ok is FALSE when the number does not parse
DigestHdr(v) == [present |-> TRUE, q |-> FALSE, v |-> v]

NumHdr(n) == [present |-> TRUE, ok |-> TRUE, n |-> n]

NoNumHdr == [present |-> FALSE, ok |-> FALSE, n |-> 0]

BadNumHdr == [present |-> TRUE, ok |-> FALSE, n |-> 0]

\* the object the backend keeps at the path of the request
Object(exists, slo, xom, etagHdr, sizeHdr, body) ==
    [exists |-> exists, XStaticLargeObject |-> slo, XObjectManifest |-> xom,
     SloEtag |-> etagHdr, SloSize |-> sizeHdr, body |-> body]

NoStore == Object(FALSE, "", EmptyStr, NoDigestHdr, NoNumHdr, JsonEmpty)

\* a Content-Range header value: the text lead and then, when tail is TRUE,
\* "bytes <first>-<end>/<length>" up to the end of the value; first is kept
\* as text.  The absent header is the empty value.
ContentRange(first, end, length) ==
    [lead |-> "", tail |-> TRUE, first |-> first, end |-> end, length |-> length]

LedContentRange(lead, first, end, length) ==
    [lead |-> lead, tail |-> TRUE, first |-> first, end |-> end, length |-> length]

NoContentRange == [lead |-> "", tail |-> FALSE, first |-> "", end |-> 0, length |-> 0]

\* "bytes */<length>", the value that goes with a 416
UnsatisfiedContentRange ==
    [lead |-> "bytes */10", tail |-> FALSE, first |-> "", end |-> 0, length |-> 0]

\* the headers of the response the identify writer wraps
RespHdr(slo, xom, etagHdr, sizeHdr, cr) ==
    [XStaticLargeObject |-> slo, XObjectManifest |-> xom, SloEtag |-> etagHdr,
     SloSize |-> sizeHdr, ContentRange |-> cr]

NoSw == [status |-> 0, isSlo |-> FALSE, isDlo |-> FALSE, body |-> JsonEmpty,
         hdr |-> RespHdr("", EmptyStr, NoDigestHdr, NoNumHdr, NoContentRange)]

NoReqRange == [Start |-> 0, End |-> 0]

NoHist == [phase |-> "first", SloEtag |-> Digest(<<>>), SloSize |-> 0, raw |-> JsonNull]

InitLocals ==
    /\ pc = "ServeHTTP"
    /\ trace = <<>>
    /\ manifest = <<>>
    /\ idx = 1
    /\ errs = <<>>
    /\ totalSize = 0
    /\ sloEtag = <<>>
    /\ toPutManifest = <<>>
    /\ sw = NoSw
    /\ reqRange = NoReqRange
    /\ hist = NoHist

---------------------------------------------------------------------------
(* ServeHTTP: the dispatcher *)

\* a piece of a header value that holds a "?" or a "&"
HasQueryChar(piece) == piece \in {"p?x", "p&x"}

isValidDloHeader(m) ==
    /\ ~(Len(m) > 1 /\ m[1] = "")
    /\ \A k \in DOMAIN m : ~HasQueryChar(m[k])
    /\ Len(m) >= 2
    /\ m[1] # ""
    /\ Tail(m) # EmptyStr

\* what the next handler may answer to a request passed through unchanged
PassStatuses == {201, 404}

Finish(events) ==
    /\ pc' = "done"
    /\ trace' = trace \o events

\* by next, into the writer it was given: a status line and a body
NextAnswers(status) ==
    <<NextEv, WriteHeaderEv("next", status, NoHdr), WriteEv("next", ErrorBody("next"))>>

\* a check that lets the SLO query through with the DLO header
BothSloAndDloNever(xloFuncName) == FALSE

\* the request that names a DLO is an SLO PUT as well
BothSloAndDlo(xloFuncName) == xloFuncName = "put"

ServeHTTP ==
    /\ pc = "ServeHTTP"
    /\ IF req.method = "PUT" /\ req.XObjectManifest # EmptyStr
          /\ ~isValidDloHeader(req.XObjectManifest)
       THEN /\ Finish(SimpleErrorResponse(400, "X-Object-Manifest must be in the format container/prefix"))
            /\ UNCHANGED sw
       ELSE IF req.method = "PUT" /\ req.XObjectManifest # EmptyStr
               /\ BothSloAndDlo(req.funcName)
       THEN /\ Finish(SimpleErrorResponse(400, "Cannot be both SLO and DLO"))
            /\ UNCHANGED sw
       ELSE IF req.method = "PUT" /\ req.funcName = "put"
       THEN /\ pc' = "handleSloPut"
            /\ UNCHANGED <<trace, sw>>
       ELSE IF req.method = "DELETE" /\ req.funcName = "delete"
       THEN /\ pc' = "handleSloDelete"
            /\ UNCHANGED <<trace, sw>>
       ELSE IF req.method \in {"GET", "HEAD"}
       THEN /\ pc' = "next"
            /\ sw' = NoSw
            /\ UNCHANGED trace
       ELSE /\ \E st \in PassStatuses : Finish(NextAnswers(st))
            /\ UNCHANGED sw
    /\ UNCHANGED <<segs, store, req, manifest, idx, errs, totalSize, sloEtag,
                   toPutManifest, reqRange, hist>>

---------------------------------------------------------------------------
(* SLO PUT: parsePutSloManifest and handleSloPut *)

\* strings.Count(manItem.Range, "-")
DashCount(range) ==
    SumSeq([k \in DOMAIN range |->
              1 + (IF range[k][1] < 0 THEN 1 ELSE 0) + (IF range[k][2] < 0 THEN 1 ELSE 0)])

\* json decoding of one item into a sloPutManifest
DecodePutItem(j) ==
    [Path |-> j.path, Etag |-> j.etag, SizeBytes |-> j.size_bytes,
     Range |-> IF j.range = <<>> THEN NoRange ELSE j.range[1]]

\* the verdict of one pass of the loop on a decoded item: the error it
\* appends before `continue`, or "" when the item is appended
ItemVerdict(manItem) ==
    IF Len(TrimLeftSlash(manItem.Path)) = 1 THEN "path does not refer to an object"
    ELSE IF manItem.SizeBytes < 0 THEN "too small"
    ELSE IF manItem.Range # NoRange /\ DashCount(manItem.Range) # 1
    THEN "invalid or multiple ranges"
    ELSE ""

\* the loop of parsePutSloManifest over the items (i is 0-based, as in the
\* code): it breaks at the first pass with i > maxManifestLen or with an
\* item that does not decode, and every pass before that one either appends
\* the item or an error
ParseItems(items) ==
    LET breaks   == {i \in 0..(Len(items) - 1) : i > maxManifestLen \/ ~items[i + 1].ok}
        passes   == IF breaks = {} THEN Len(items)
                    ELSE CHOOSE i \in breaks : \A j \in breaks : i <= j
        decoded  == [k \in 1..passes |-> DecodePutItem(items[k])]
        verdicts == [k \in 1..passes |-> ItemVerdict(decoded[k])]
        atBreak  == IF breaks = {} THEN <<>>
                    ELSE IF passes > maxManifestLen THEN <<"too many segments">>
                    ELSE <<"invalid format">>
    IN  [manifest |-> SelectSeq(decoded, LAMBDA d : ItemVerdict(d) = ""),
         errs |-> SelectSeq(verdicts, LAMBDA v : v # "") \o atBreak]

parsePutSloManifest(body) ==
    IF body.kind # "array"
    THEN [manifest |-> <<>>, errs |-> <<"not a list">>]
    ELSE ParseItems(body.items)

PutLocalsUnchanged == UNCHANGED <<idx, errs, totalSize, sloEtag, toPutManifest>>

\* handleSloPut up to the loop: the preconditions and the parse of the body
PutParse ==
    /\ pc = "handleSloPut"
    /\ LET pathMap == ParseProxyPath(req.path)
           parsed  == parsePutSloManifest(req.body)
       IN  IF pathMap.err \/ pathMap.object = EmptyStr
           THEN Finish(SimpleErrorResponse(400, "invalid must multipath PUT to an object path"))
                /\ UNCHANGED manifest /\ PutLocalsUnchanged
           ELSE IF req.ContentLength = "" /\ req.TransferEncoding # "chunked"
           THEN Finish(SimpleErrorResponse(411, "Length Required"))
                /\ UNCHANGED manifest /\ PutLocalsUnchanged
           ELSE IF req.XCopyFrom # ""
           THEN Finish(SimpleErrorResponse(405, "Multipart Manifest PUTs cannot be COPY requests"))
                /\ UNCHANGED manifest /\ PutLocalsUnchanged
           ELSE IF Len(parsed.errs) > 0
           THEN Finish(SimpleErrorResponse(400, "manifest errors"))
                /\ errs' = parsed.errs
                /\ UNCHANGED <<manifest, idx, totalSize, sloEtag, toPutManifest>>
           ELSE /\ pc' = "putLoop"
                /\ manifest' = parsed.manifest
                /\ idx' = 1
                /\ errs' = <<>>
                /\ totalSize' = 0
                /\ sloEtag' = <<>>
                /\ toPutManifest' = <<>>
                /\ UNCHANGED trace
    /\ UNCHANGED <<segs, store, req, sw, reqRange, hist>>

\* a segItem that trusts the size the client gave
NewSegItemOfClaimedSize(spm, pw, parsedRange) ==
    [Name |-> spm.Path, Bytes |-> spm.SizeBytes, Hash |-> pw.Etag.v,
     Range |-> parsedRange, SubSlo |-> pw.Slo, ContentType |-> pw.ContentType,
     LastModified |-> pw.LastModified]

\* the segItem handleSloPut appends for spm, given the HEAD answer pw
NewSegItem(spm, pw, parsedRange) ==
    [Name |-> spm.Path, Bytes |-> pw.ContentLength.n, Hash |-> pw.Etag.v,
     Range |-> parsedRange, SubSlo |-> pw.Slo, ContentType |-> pw.ContentType,
     LastModified |-> pw.LastModified]

\* a format that writes the half-open end
FormatRangeExclusive(r) == << <<r.Start, r.End>> >>

\* fmt.Sprintf("%d-%d", ranges[0].Start, ranges[0].End-1)
FormatRange(r) == << <<r.Start, r.End - 1>> >>

\* a digest fed with the tokens in reverse
FeedSloEtagFront(fed, newSi) == <<segLenHash(newSi).hash>> \o fed

\* io.WriteString(sloEtag, newSiHash)
FeedSloEtag(fed, newSi) == Append(fed, segLenHash(newSi).hash)

\* a list that grows at its front
AppendToPutFront(list, newSi) == <<newSi>> \o list

\* toPutManifest = append(toPutManifest, newSi)
AppendToPut(list, newSi) == Append(list, newSi)

HeadEv(pathMap, s) ==
    Answered(SubrequestEv("HEAD", <<pathMap.account, s.container>> \o s.object, "",
                          NoHdr, "capture", <<>>),
             HeadOf(s.container, s.object).status, JsonEmpty)

\* one pass of the loop over the client manifest
PutItem ==
    /\ pc = "putLoop"
    /\ idx <= Len(manifest)
    /\ LET spm     == manifest[idx]
           pathMap == ParseProxyPath(req.path)
           s       == splitSegPath(spm.Path)
           pw      == HeadOf(s.container, s.object)
           pr      == ParseRange(spm.Range, pw.ContentLength.n)
           ranged  == spm.Range # NoRange
           segmentSize == IF ranged THEN pr.ranges[1].End - pr.ranges[1].Start
                          ELSE pw.ContentLength.n
           parsedRange == IF ranged THEN FormatRange(pr.ranges[1]) ELSE spm.Range
           newSi   == NewSegItem(spm, pw, parsedRange)
           Break(e) == /\ errs' = Append(errs, e)
                       /\ pc' = "putCheck"
                       /\ UNCHANGED <<trace, idx, totalSize, sloEtag, toPutManifest>>
           Continue(e) == /\ errs' = Append(errs, e)
                          /\ idx' = idx + 1
                          /\ trace' = Append(trace, HeadEv(pathMap, s))
                          /\ UNCHANGED <<pc, totalSize, sloEtag, toPutManifest>>
       IN  IF s.err THEN Break("invalid manifest path")
           ELSE IF s.container = pathMap.container /\ s.object = pathMap.object
           THEN Break("manifest cannot reference itself")
           ELSE IF ~UrlBuilds(<<pathMap.account, s.container>> \o s.object)
           THEN /\ pc' = "done"
                /\ UNCHANGED <<trace, idx, errs, totalSize, sloEtag, toPutManifest>>
           ELSE IF pw.status # 200 THEN Continue("response on segment")
           ELSE IF ~pw.ContentLength.ok THEN Continue("bad content-length on segment")
           ELSE IF spm.SizeBytes > 0 /\ pw.ContentLength.n # spm.SizeBytes
           THEN Continue("Unmatching ContentLength")
           ELSE IF ranged /\ pr.err THEN Continue("invalid range")
           ELSE IF ranged /\ Len(pr.ranges) # 1 THEN Continue("multiple ranges")
           ELSE IF spm.Etag # "" /\ spm.Etag # pw.Etag.v
           THEN /\ errs' = Append(errs, "Etag Mismatch")
                /\ totalSize' = totalSize + segmentSize
                /\ idx' = idx + 1
                /\ trace' = Append(trace, HeadEv(pathMap, s))
                /\ UNCHANGED <<pc, sloEtag, toPutManifest>>
           ELSE /\ totalSize' = totalSize + segmentSize
                /\ sloEtag' = FeedSloEtag(sloEtag, newSi)
                /\ toPutManifest' = AppendToPut(toPutManifest, newSi)
                /\ idx' = idx + 1
                /\ trace' = Append(trace, HeadEv(pathMap, s))
                /\ UNCHANGED <<pc, errs>>
    /\ UNCHANGED <<segs, store, req, manifest, sw, reqRange, hist>>

\* mime.TypeByExtension(filepath.Ext(object))
TypeByExtension(object) ==
    IF object[Len(object)] = "pic.png" THEN "image/png" ELSE ""

\* what the backend may answer to the PUT that persists the manifest
PersistStatuses == {201, 503}

PersistHdr(contentType, size, etag, newBody) ==
    [ContentType |-> [type |-> contentType, swift_bytes |-> size],
     XStaticLargeObject |-> "True",
     SloEtag |-> etag,
     SloSize |-> size,
     Etag |-> Digest(newBody),
     ContentLength |-> [lenOf |-> newBody]]

\* the manifest object as the backend keeps it after a persisting PUT
Stored(ev) ==
    Object(TRUE, ev.hdr.XStaticLargeObject, EmptyStr, DigestHdr(ev.hdr.SloEtag),
           NumHdr(ev.hdr.SloSize), ev.data)

\* handleSloPut after the loop: the error check, the client's Etag, the
\* manifest-persisting PUT subrequest into the client's writer
PutFinish ==
    /\ \/ pc = "putCheck"
       \/ pc = "putLoop" /\ idx > Len(manifest)
    /\ IF Len(errs) > 0
       THEN /\ Finish(SimpleErrorResponse(400, "manifest errors"))
            /\ UNCHANGED store
       ELSE LET xloEtagGen == Digest(sloEtag)
                invalid == IF req.Etag.present /\ req.Etag.v # xloEtagGen
                           THEN SimpleErrorResponse(422, "Invalid Etag")
                           ELSE <<>>
                object == ParseProxyPath(req.path).object
                contentType ==
                    IF req.ContentType # "" THEN req.ContentType
                    ELSE IF TypeByExtension(object) # "" THEN TypeByExtension(object)
                    ELSE "application/octet-stream"
                newBody == MarshalManifest(toPutManifest)
                putReq == SubrequestEv("PUT", req.path, "",
                              PersistHdr(contentType, totalSize, xloEtagGen, newBody),
                              "client", newBody)
            IN  IF ~UrlBuilds(req.path)
                THEN /\ Finish(invalid \o SimpleErrorResponse(500, "Internal Server Error"))
                     /\ UNCHANGED store
                ELSE \E st \in PersistStatuses :
                        /\ Finish(invalid \o <<Answered(putReq, st, JsonEmpty),
                                                WriteHeaderEv("sub", st, NoHdr)>>)
                        /\ store' = IF st = 201 THEN Stored(putReq) ELSE store
    /\ UNCHANGED <<segs, req, manifest, idx, errs, totalSize, sloEtag,
                   toPutManifest, sw, reqRange, hist>>

---------------------------------------------------------------------------
(* GET ?multipart-manifest=get&format=raw of a stored manifest, and the    *)
(* client sending the body it got as a new SLO PUT                          *)

MarshalPutItem(spm) ==
    PutItemJson(TRUE, spm.Path, spm.Etag, spm.SizeBytes, spm.Range)

\* json.Marshal of []sloPutManifest: a nil slice is written as null
MarshalPutManifest(list) ==
    IF list = <<>> THEN JsonNull
    ELSE JsonArray([k \in DOMAIN list |-> MarshalPutItem(list[k])])

convertManifest(manifestBytes) ==
    LET saved == UnmarshalManifest(manifestBytes)
        putManifest == [k \in DOMAIN saved.manifest |->
                          [Path |-> saved.manifest[k].Name,
                           Etag |-> saved.manifest[k].Hash,
                           SizeBytes |-> saved.manifest[k].Bytes,
                           Range |-> saved.manifest[k].Range]]
    IN  IF saved.err THEN [err |-> TRUE, body |-> JsonNull]
        ELSE [err |-> FALSE, body |-> MarshalPutManifest(putManifest)]

StatusLines == SelectSeq(trace, LAMBDA e : e.op = "WriteHeader")

\* the PUT subrequest of the request just served, if it issued one
PersistEvents == SelectSeq(trace, LAMBDA e : e.op = "Subrequest" /\ e.method = "PUT")

\* The client reads back, in raw form, the manifest its PUT has just stored
\* (handleSloGet with multipart-manifest=get and format=raw on the stored
\* body) ...
RawGet ==
    /\ pc = "done"
    /\ hist.phase = "first"
    /\ req.method = "PUT"
    /\ PersistEvents # <<>>
    /\ StatusLines # <<>>
    /\ StatusLines[1].status = 201
    /\ store = Stored(PersistEvents[1])
    /\ ~convertManifest(store.body).err
    /\ hist' = [phase |-> "raw", SloEtag |-> store.SloEtag.v, SloSize |-> store.SloSize.n,
                raw |-> convertManifest(store.body).body]
    /\ UNCHANGED <<segs, store, req, pc, trace, manifest, idx, errs, totalSize,
                   sloEtag, toPutManifest, sw, reqRange>>

\* ... and PUTs that body again, with the headers of its first PUT
RePut ==
    /\ pc = "done"
    /\ hist.phase = "raw"
    /\ req' = [req EXCEPT !.body = hist.raw]
    /\ hist' = [hist EXCEPT !.phase = "reput"]
    /\ pc' = "ServeHTTP"
    /\ trace' = <<>>
    /\ manifest' = <<>>
    /\ idx' = 1
    /\ errs' = <<>>
    /\ totalSize' = 0
    /\ sloEtag' = <<>>
    /\ toPutManifest' = <<>>
    /\ UNCHANGED <<segs, store, sw, reqRange>>

InitPut ==
    /\ segs \in SegStates
    /\ store = NoStore
    /\ req \in PutRequests \cup LongRequests
    /\ InitLocals

NextPut == ServeHTTP \/ PutParse \/ PutItem \/ PutFinish \/ RawGet \/ RePut

SpecPut == InitPut /\ [][NextPut]_vars

---------------------------------------------------------------------------
(* GET / HEAD: the identify writer, needToRefetchManifest, buildSloManifest, *)
(* byteFeeder and feedOutSegments                                            *)

\* a stored SegmentDescriptor
SegItem(name, bytes, hash, range) ==
    [Name |-> name, Bytes |-> bytes, Hash |-> hash, Range |-> range,
     SubSlo |-> FALSE, ContentType |-> "text/plain", LastModified |-> "t0"]

\* the bytes [from, to) of an object
Extent(obj, from, to) ==
    IF to <= from THEN <<>>
    ELSE [k \in 1..(to - from) |-> [obj |-> obj, off |-> from + k - 1]]

\* a JSON text written as a body
JsonBytes(json) == <<[obj |-> <<"json">>, off |-> 0, json |-> json]>>

\* xlo.next.ServeHTTP(sw, request) for GET and HEAD: what the backend may
\* answer for the object it keeps at the path.  A ranged GET is answered
\* from the bytes of the stored body: in full, in part, or 416; a
\* conditional request may be answered 304 or 412.
FullAnswers(o) ==
    {[status |-> 200, body |-> o.body, cr |-> NoContentRange]}

RangedAnswers(o) ==
    { [status |-> 200, body |-> o.body, cr |-> NoContentRange],
      [status |-> 200, body |-> o.body, cr |-> ContentRange("0", 9, 10)],
      [status |-> 206, body |-> o.body, cr |-> ContentRange("0", 9, 10)],
      [status |-> 206, body |-> JsonGarbage, cr |-> ContentRange("0", 4, 10)],
      [status |-> 206, body |-> JsonGarbage, cr |-> ContentRange("1", 9, 10)],
      [status |-> 206, body |-> JsonGarbage, cr |-> LedContentRange("x", "0", 9, 10)],
      [status |-> 206, body |-> JsonGarbage, cr |-> UnsatisfiedContentRange],
      [status |-> 416, body |-> JsonGarbage, cr |-> UnsatisfiedContentRange],
      [status |-> 416, body |-> JsonGarbage, cr |-> NoContentRange] }

ConditionalAnswers ==
    { [status |-> 304, body |-> JsonEmpty, cr |-> NoContentRange],
      [status |-> 412, body |-> JsonEmpty, cr |-> NoContentRange] }

BackendAnswers(o) ==
    IF ~o.exists THEN {[status |-> 404, body |-> JsonGarbage, cr |-> NoContentRange]}
    ELSE (IF req.Range # NoRange THEN RangedAnswers(o) ELSE FullAnswers(o))
         \cup (IF req.Conditional THEN ConditionalAnswers ELSE {})

\* the Write calls of the next handler for a body: two chunks, none for an
\* empty body
Chunk(body, n) == <<[obj |-> <<"json">>, off |-> n, json |-> body]>>

NextWrites(body) ==
    IF body.kind = "empty" THEN <<>> ELSE <<Chunk(body, 0), Chunk(body, 1)>>

\* the call of the next handler, with the status and the bytes it wrote into
\* the writer it was given
NextCalled(status, writes) ==
    [NextEv EXCEPT !.status = status, !.data = Flatten(writes)]

\* a writer that takes every X-Object-Manifest for a DLO
ClassifiedDloAnyQuery(theDlo, funcName) == theDlo # EmptyStr

\* xloIdentifyWriter.WriteHeader: the two classifications
ClassifiedDlo(theDlo, funcName) == theDlo # EmptyStr /\ funcName # "get"

ClassifiedSlo(isSlo) == isSlo = "True"

\* xloIdentifyWriter.WriteHeader: the status goes to the client's writer
\* when the response is neither
IdentifyWriteHeader(isSlo, isDlo, status) ==
    IF ~isSlo /\ ~isDlo THEN <<WriteHeaderEv("next", status, NoHdr)>> ELSE <<>>

\* xloIdentifyWriter.Write: dropped for a DLO, buffered for an SLO, given to
\* the client's writer otherwise
IdentifyWrite(isSlo, isDlo, b) ==
    IF isDlo THEN <<>>
    ELSE IF isSlo THEN <<>>
    ELSE <<WriteEv("next", b)>>

\* xloIdentifyWriter.WriteHeader and Write, as the next handler calls them,
\* and the dispatch of ServeHTTP on the outcome
CallNext ==
    /\ pc = "next"
    /\ \E ans \in BackendAnswers(store) :
         LET hdr   == RespHdr(IF store.exists THEN store.XStaticLargeObject ELSE "",
                              IF store.exists THEN store.XObjectManifest ELSE EmptyStr,
                              store.SloEtag, store.SloSize, ans.cr)
             body  == IF req.method = "HEAD" THEN JsonEmpty ELSE ans.body
             writes == NextWrites(body)
             isDlo == ClassifiedDlo(hdr.XObjectManifest, req.funcName)
             isSlo == ClassifiedSlo(hdr.XStaticLargeObject)
         IN  /\ sw' = [status |-> ans.status, isSlo |-> isSlo, isDlo |-> isDlo,
                       body |-> IF isDlo THEN JsonEmpty
                                ELSE IF isSlo THEN body ELSE JsonEmpty,
                       hdr |-> hdr]
             /\ trace' = trace \o <<NextCalled(ans.status, writes)>> \o
                    IdentifyWriteHeader(isSlo, isDlo, ans.status) \o
                    Flatten([k \in DOMAIN writes |-> IdentifyWrite(isSlo, isDlo, writes[k])])
             /\ pc' = IF isSlo THEN "handleSloGet"
                      ELSE IF isDlo THEN "handleDloGet" ELSE "done"
    /\ UNCHANGED <<segs, store, req, manifest, idx, errs, totalSize, sloEtag,
                   toPutManifest, reqRange, hist>>

\* re.FindStringSubmatch for `bytes (\d+)-(\d+)/(\d+)$`: the pattern is
\* tied to the end of the value only, so the text before it is not looked at
FindStringSubmatch(h) ==
    IF h.tail THEN <<h, h.first, h.end, h.length>> ELSE <<>>

needToRefetchManifest ==
    IF req.method = "HEAD" THEN TRUE
    ELSE IF req.Range # NoRange /\ sw.status = 416 THEN TRUE
    ELSE IF req.Range # NoRange /\ sw.status \in {200, 206}
    THEN LET res == FindStringSubmatch(sw.hdr.ContentRange)
         IN  IF res = <<>> \/ Len(res) # 4 THEN TRUE
             ELSE LET end == res[3]
                      length == res[4]
                      got_everything == (res[2] = "0" /\ end = length - 1)
                  IN  ~got_everything
    ELSE FALSE

\* what the backend may answer to GET <path>?multipart-manifest=get
RefetchAnswers ==
    { [status |-> 200, body |-> store.body],
      [status |-> 200, body |-> JsonEmpty],
      [status |-> 404, body |-> JsonEmpty],
      [status |-> 503, body |-> JsonGarbage],
      [status |-> 503, body |-> store.body] }

\* the error of json.Unmarshal, as text
UnmarshalError(body) ==
    IF body.kind = "empty" THEN "unexpected end of JSON input"
    ELSE IF body.kind = "garbage" THEN "invalid character"
    ELSE ""

\* buildSloManifest, given the answer the capture writer received
buildSloManifest(manPath, ans) ==
    IF ~UrlBuilds(manPath)
    THEN [err |-> TRUE, error |-> "invalid URL escape", manifest |-> <<>>, events |-> <<>>]
    ELSE LET ev == <<Answered(SubrequestEv("GET", manPath, "multipart-manifest=get",
                                           NoHdr, "capture", <<>>),
                              ans.status, ans.body)>>
         IN  IF ans.status # 200 /\ ans.body.kind = "empty"
             THEN [err |-> TRUE, error |-> "Error fetching manifest",
                   manifest |-> <<>>, events |-> ev]
             ELSE [err |-> UnmarshalManifest(ans.body).err,
                   error |-> UnmarshalError(ans.body),
                   manifest |-> UnmarshalManifest(ans.body).manifest,
                   events |-> ev]

\* the etag and length byteFeeder computes from the manifest
GenEtag(man) == Digest([k \in DOMAIN man |-> segLenHash(man[k]).hash])

GenLength(man) == SumSeq([k \in DOMAIN man |-> segLenHash(man[k]).len])

\* the header byteFeeder commits
FeederHdr(length, etag) ==
    [ContentLength |-> NumHdr(length), Etag |-> [quoted |-> TRUE, of |-> DigestHdr(etag)]]

\* a byteFeeder that serves the whole object when the range does not parse
FeederRangeLenient(reqRangeStr, xloContentLength) ==
    LET pr == ParseRange(reqRangeStr, xloContentLength)
    IN  IF reqRangeStr = NoRange \/ pr.err
        THEN [refused |-> "", range |-> [Start |-> 0, End |-> xloContentLength]]
        ELSE IF Len(pr.ranges) # 1
        THEN [refused |-> "invalid multi range", range |-> NoReqRange]
        ELSE [refused |-> "", range |-> pr.ranges[1]]

\* the range byteFeeder emits for a Range header against the total length,
\* or its refusal
FeederRange(reqRangeStr, xloContentLength) ==
    LET pr == ParseRange(reqRangeStr, xloContentLength)
    IN  IF reqRangeStr = NoRange
        THEN [refused |-> "", range |-> [Start |-> 0, End |-> xloContentLength]]
        ELSE IF pr.err
        THEN [refused |-> "invalid range", range |-> NoReqRange]
        ELSE IF Len(pr.ranges) # 1
        THEN [refused |-> "invalid multi range", range |-> NoReqRange]
        ELSE [refused |-> "", range |-> pr.ranges[1]]

\* a Content-Length that stays the length of the whole object
FeederContentLengthOfAll(reqRangeStr, xloContentLength, range) == xloContentLength

\* the Content-Length byteFeeder sets: the total length, or for a ranged
\* request 0 plus the length of the one range
FeederContentLength(reqRangeStr, xloContentLength, range) ==
    IF reqRangeStr = NoRange THEN xloContentLength
    ELSE 0 + (range.End - range.Start)

\* byteFeeder, after the events pre of its caller: the range to emit, the
\* status line, and the start of feedOutSegments
byteFeeder(pre, xloEtag, xloContentLengthStr, man) ==
    LET recompute == ~xloEtag.present \/ ~(xloContentLengthStr.present /\ xloContentLengthStr.ok)
        length == IF recompute THEN GenLength(man) ELSE xloContentLengthStr.n
        etag   == IF recompute THEN GenEtag(man) ELSE xloEtag.v
        fr     == FeederRange(req.Range, length)
        range  == fr.range
        pathMap == ParseProxyPath(req.path)
    IN  IF fr.refused # ""
        THEN /\ Finish(pre \o SimpleErrorResponse(400, fr.refused))
             /\ UNCHANGED <<manifest, idx, reqRange>>
        ELSE /\ trace' = trace \o pre \o
                    <<WriteHeaderEv("xlo", 200,
                          FeederHdr(FeederContentLength(req.Range, length, range), etag))>>
             /\ manifest' = man
             /\ idx' = 1
             /\ reqRange' = range
             /\ pc' = IF pathMap.err \/ pathMap.account = "" \/ man = <<>>
                      THEN "done" ELSE "feedOutSegments"

\* a short circuit that wants both sysmeta headers
AnswersFromBothSysmeta(headOrConditional, etagHdr, sizeHdr) ==
    headOrConditional /\ etagHdr.present /\ sizeHdr.present

\* handleSloGet answers from the sysmeta alone
AnswersFromSysmeta(headOrConditional, etagHdr, sizeHdr) ==
    headOrConditional /\ (etagHdr.present \/ sizeHdr.present)

handleSloGet ==
    /\ pc = "handleSloGet"
    /\ LET sloEtag0 == sw.hdr.SloEtag
           savedContentLength == sw.hdr.SloSize
           isConditional == req.Conditional /\ sw.status \in {304, 412}
           converted == convertManifest(sw.body)
           manifestBytes == IF req.format = "raw" THEN converted.body ELSE sw.body
       IN  IF req.funcName = "get"
           THEN /\ IF req.format = "raw" /\ converted.err
                   THEN Finish(SimpleErrorResponse(400, "invalid slo manifest"))
                   ELSE Finish(<<WriteHeaderEv("xlo", 200,
                                    [ContentLength |-> [lenOf |-> manifestBytes],
                                     Etag |-> [quoted |-> FALSE, of |-> NoDigestHdr]]),
                                 WriteEv("xlo", JsonBytes(manifestBytes))>>)
                /\ UNCHANGED <<manifest, idx, reqRange>>
           ELSE IF AnswersFromSysmeta(req.method = "HEAD" \/ isConditional,
                                      sloEtag0, savedContentLength)
           THEN /\ Finish(<<WriteHeaderEv("xlo", sw.status,
                               [ContentLength |-> savedContentLength,
                                Etag |-> [quoted |-> TRUE, of |-> sloEtag0]])>>)
                /\ UNCHANGED <<manifest, idx, reqRange>>
           ELSE IF needToRefetchManifest
           THEN \E ans \in RefetchAnswers :
                  LET got == buildSloManifest(req.path, ans)
                  IN  byteFeeder(got.events \o
                                   (IF got.err
                                    THEN SimpleErrorResponse(400, "invalid slo manifest")
                                    ELSE <<>>),
                                 sloEtag0, savedContentLength, got.manifest)
           ELSE LET got == UnmarshalManifest(sw.body)
                IN  byteFeeder(IF got.err
                               THEN SimpleErrorResponse(400, "invalid slo manifest")
                               ELSE <<>>,
                               sloEtag0, savedContentLength, got.manifest)
    /\ UNCHANGED <<segs, store, req, errs, totalSize, sloEtag, toPutManifest, sw, hist>>

\* a record of a container listing, as JSON
ListItem(name, bytes, hash) == MarshalSegItem(SegItem(name, bytes, hash, NoRange))

ListItems ==
    { ListItem(<<"p_0">>, MaxBytes - 1, "h0"),
      ListItem(<<"p_1">>, MaxBytes, "h1"),
      ListItem(<<"p_z">>, 0, "hz") }

\* what the backend may answer to GET /v1/<account>/<container>?format=json&prefix=
ListingAnswers ==
    { [status |-> 200, body |-> JsonArray(l)] : l \in SeqsUpTo(ListItems, MaxItems) \ {<<>>} }
    \cup { [status |-> 200, body |-> JsonNull],
           [status |-> 404, body |-> JsonEmpty],
           [status |-> 503, body |-> JsonGarbage] }

buildDloManifest(account, container, prefix, ans) ==
    IF ~UrlBuilds(<<account, container>>) \/ ~UrlBuilds(prefix)
    THEN [err |-> TRUE, manifest |-> <<>>, events |-> <<>>]
    ELSE LET ev == <<Answered(SubrequestEv("GET", <<account, container>>,
                                           "format=json&prefix", NoHdr, "capture", <<>>),
                              ans.status, ans.body)>>
             got == UnmarshalManifest(ans.body)
         IN  IF ans.status # 200 /\ ans.body.kind = "empty"
             THEN [err |-> TRUE, manifest |-> <<>>, events |-> ev]
             ELSE IF got.err THEN [err |-> TRUE, manifest |-> <<>>, events |-> ev]
             ELSE [err |-> FALSE,
                   manifest |-> [k \in DOMAIN got.manifest |->
                                   [got.manifest[k] EXCEPT
                                      !.Name = <<container>> \o got.manifest[k].Name]],
                   events |-> ev]

handleDloGet ==
    /\ pc = "handleDloGet"
    /\ LET pathMap == ParseProxyPath(req.path)
           s == splitSegPath(sw.hdr.XObjectManifest)
       IN  IF pathMap.err \/ pathMap.object = EmptyStr
           THEN /\ Finish(SimpleErrorResponse(400, "invalid must multipath PUT to an object path"))
                /\ UNCHANGED <<manifest, idx, reqRange>>
           ELSE IF s.err
           THEN /\ Finish(SimpleErrorResponse(400, "invalid dlo manifest path"))
                /\ UNCHANGED <<manifest, idx, reqRange>>
           ELSE \E ans \in ListingAnswers :
                  LET got == buildDloManifest(pathMap.account, s.container, s.object, ans)
                  IN  IF got.err
                      THEN /\ Finish(got.events \o
                                     SimpleErrorResponse(400, "can not build dlo manifest"))
                           /\ UNCHANGED <<manifest, idx, reqRange>>
                      ELSE byteFeeder(got.events, NoDigestHdr, NoNumHdr, got.manifest)
    /\ UNCHANGED <<segs, store, req, errs, totalSize, sloEtag, toPutManifest, sw, hist>>

\* what the backend may answer to the ranged GET of a segment
SegmentStatuses == {206, 404}

\* a feedOutSegments that asks every segment up to the end of its own range
SubRequestRangeUnclipped(si, rr) ==
    LET segmentRange == makeRange(si)
    IN  [Start |-> IF rr.Start > 0 THEN segmentRange.Start + rr.Start
                   ELSE segmentRange.Start,
         End   |-> segmentRange.End]

\* the range of the segment object to ask for, given what is left to emit
SubRequestRange(si, rr) ==
    LET segmentRange == makeRange(si)
        subReqStart  == IF rr.Start > 0 THEN segmentRange.Start + rr.Start
                        ELSE segmentRange.Start
        subReqEnd    == IF segmentRange.End > segmentRange.Start + rr.End
                        THEN segmentRange.Start + rr.End ELSE segmentRange.End
    IN  [Start |-> subReqStart, End |-> subReqEnd]

\* reqRange.Start -= segLen; reqRange.End -= segLen
ShiftRange(rr, segLen) == [Start |-> rr.Start - segLen, End |-> rr.End - segLen]

\* a loop that does not move on from entry i
NextSegmentSame(i) == i

\* a loop that starts over after every entry
NextSegmentFirst(i) == 1

\* for _, si := range manifest: the entry after entry i
NextSegment(i) == i + 1

\* a forward writer that hands the status of the segment subrequest on to
\* the client's writer
ForwardWriteHeaderThrough(status) == <<WriteHeaderEv("sub", status, NoHdr)>>

\* xloForwardBodyWriter.WriteHeader keeps the status of the segment
\* subrequest to itself: nothing reaches the client's writer
ForwardWriteHeader(status) == <<>>

\* xloForwardBodyWriter.Write hands the bytes to the client's writer; when
\* the client has gone the write fails and the bytes are lost
WriteErrorEv(by, data) == Event("WriteError", by, 0, "", <<>>, "", NoHdr, "client", data)

ClientClosed == \E k \in DOMAIN trace : trace[k].op = "WriteError"

ForwardWrite(delivered, data) ==
    IF delivered THEN WriteEv("sub", data) ELSE WriteErrorEv("sub", data)

\* whether a write on the client's writer can succeed
Deliveries == IF ClientClosed THEN {FALSE} ELSE BOOLEAN

\* one pass of the loop of feedOutSegments
FeedSegment ==
    /\ pc = "feedOutSegments"
    /\ idx <= Len(manifest)
    /\ LET si      == manifest[idx]
           segLen  == segLenHash(si).len
           sub     == SubRequestRange(si, reqRange)
           s       == splitSegPath(si.Name)
           pathMap == ParseProxyPath(req.path)
           newPath == <<pathMap.account, s.container>> \o s.object
           Return  == pc' = "done" /\ UNCHANGED idx
           Continue == IF idx = Len(manifest) THEN Return
                       ELSE idx' = NextSegment(idx) /\ UNCHANGED pc
       IN  IF reqRange.Start >= segLen
           THEN /\ reqRange' = ShiftRange(reqRange, segLen)
                /\ IF reqRange'.End < 0 THEN Return ELSE Continue
                /\ UNCHANGED trace
           ELSE IF reqRange.End < 0
           THEN Return /\ UNCHANGED <<trace, reqRange>>
           ELSE IF sub.End <= 0
           THEN Continue /\ UNCHANGED <<trace, reqRange>>
           ELSE IF s.err \/ ~UrlBuilds(newPath)
           THEN Return /\ UNCHANGED <<trace, reqRange>>
           ELSE \E st \in SegmentStatuses, delivered \in Deliveries :
                  /\ trace' = trace \o
                       <<AtEntry(Answered(SubrequestEv("GET", newPath, "",
                                               [Range |-> << <<sub.Start, sub.End - 1>> >>],
                                               "forward", <<>>),
                                          st, JsonEmpty), idx)>> \o
                       ForwardWriteHeader(st) \o
                       <<ForwardWrite(delivered,
                                      IF st \div 100 = 2
                                      THEN Extent(<<s.container>> \o s.object,
                                                  sub.Start, sub.End)
                                      ELSE ErrorBody("segment error"))>>
                  /\ IF st \div 100 # 2
                     THEN Return /\ UNCHANGED reqRange
                     ELSE Continue /\ reqRange' = ShiftRange(reqRange, segLen)
    /\ UNCHANGED <<segs, store, req, manifest, errs, totalSize, sloEtag,
                   toPutManifest, sw, hist>>

---------------------------------------------------------------------------
(* The GET / HEAD specification *)

StoredItems ==
    { SegItem(<<"c", "s1">>, MaxBytes - 1, "e1", NoRange),
      SegItem(<<"", "c", "s2">>, MaxBytes, "e2", << <<1, MaxBytes - 1>> >>),
      SegItem(<<"c", "s3">>, MaxBytes, "e3", << <<1, 1>> >>),
      SegItem(<<"c", "z">>, 0, "ez", NoRange) }

Manifests == SeqsUpTo(StoredItems, MaxItems)

\* the largest total length of a stored manifest or a listing
RangeMax == MaxItems * MaxBytes - 1

ClientRanges ==
    { << <<a, b>> >> : a \in 0..RangeMax, b \in 0..RangeMax }
    \cup { << <<0, 0>>, <<1, 1>> >> }

SloObject(m, etagHdr, sizeHdr) ==
    Object(TRUE, "True", EmptyStr, etagHdr, sizeHdr, MarshalManifest(m))

GetRequest(method, funcName, format, range, cond) ==
    Request(method, funcName, format, SelfPath, range, cond, NoDigestHdr,
            "", "", "", EmptyStr, "", JsonEmpty)

TwoSegments ==
    << SegItem(<<"c", "s1">>, MaxBytes - 1, "e1", NoRange),
       SegItem(<<"", "c", "s2">>, MaxBytes, "e2", << <<1, MaxBytes - 1>> >>) >>

OddManifest ==
    << SegItem(<<"c", "s2">>, MaxBytes, "e2", << <<MaxBytes, MaxBytes>> >>),
       SegItem(<<"bad">>, 1, "eb", NoRange),
       SegItem(<<"c", BadEscape>>, 1, "ex", NoRange) >>

DloObject(xom) == Object(TRUE, "", xom, NoDigestHdr, NoNumHdr, JsonEmpty)

SmallStores ==
    { SloObject(TwoSegments, DigestHdr(GenEtag(TwoSegments)), NumHdr(GenLength(TwoSegments))),
      SloObject(TwoSegments, NoDigestHdr, NoNumHdr),
      SloObject(TwoSegments, DigestHdr(GenEtag(TwoSegments)), NoNumHdr),
      SloObject(TwoSegments, DigestHdr(GenEtag(TwoSegments)), BadNumHdr),
      SloObject(OddManifest, NoDigestHdr, NoNumHdr),
      Object(TRUE, "True", EmptyStr, NoDigestHdr, NoNumHdr, JsonGarbage),
      Object(TRUE, "True", <<"c", "p_">>, NoDigestHdr, NoNumHdr, MarshalManifest(TwoSegments)),
      DloObject(<<"c", "p_">>),
      DloObject(<<"c">>),
      Object(TRUE, "", EmptyStr, NoDigestHdr, NoNumHdr, JsonGarbage),
      NoStore }

GetCases ==
    { <<GetRequest("GET", "", "", r, FALSE),
        SloObject(m, DigestHdr(GenEtag(m)), NumHdr(GenLength(m)))>> :
        r \in ClientRanges, m \in Manifests }
    \cup
    { <<GetRequest("GET", "", "", r, FALSE), DloObject(<<"c", "p_">>)>> : r \in ClientRanges }
    \cup
    { <<GetRequest(me, f, fo, r, co), o>> :
        me \in {"GET", "HEAD"}, f \in {"", "get"}, fo \in {"", "raw"},
        r \in {NoRange, << <<0, 1>> >>}, co \in BOOLEAN, o \in SmallStores }

InitGet ==
    /\ segs = [k \in {S1, S2} |-> NotFoundResp]
    /\ \E c \in GetCases : req = c[1] /\ store = c[2]
    /\ InitLocals

NextGet == ServeHTTP \/ CallNext \/ handleSloGet \/ handleDloGet \/ FeedSegment

SpecGet == InitGet /\ [][NextGet]_vars

---------------------------------------------------------------------------
(* DELETE ?multipart-manifest=delete: handleSloDelete and deleteAllSegments *)

\* what the backend may answer to the DELETE of a segment
DeleteStatuses == {204, 404, 503}

\* the cascade goes on to the next segment whatever the subrequest answered
CascadeGoesOn(status) == TRUE

\* handleSloDelete up to the loop of deleteAllSegments
DeleteFetch ==
    /\ pc = "handleSloDelete"
    /\ LET pathMap == ParseProxyPath(req.path)
       IN  IF pathMap.err \/ pathMap.object = EmptyStr
           THEN /\ Finish(SimpleErrorResponse(400, "invalid must multipath DELETE to an object path"))
                /\ UNCHANGED <<manifest, idx, errs>>
           ELSE \E ans \in RefetchAnswers :
                  LET got == buildSloManifest(req.path, ans)
                  IN  IF got.err
                      THEN /\ Finish(got.events \o
                                     SimpleErrorResponse(400, "invalid manifest json"))
                           /\ UNCHANGED <<manifest, idx, errs>>
                      ELSE /\ trace' = trace \o got.events
                           /\ manifest' = got.manifest
                           /\ idx' = 1
                           /\ errs' = IF pathMap.account = ""
                                      THEN <<"invalid path to slo delete">> ELSE <<>>
                           /\ pc' = IF pathMap.account = "" \/ got.manifest = <<>>
                                    THEN "deleted" ELSE "deleteAllSegments"
    /\ UNCHANGED <<segs, store, req, totalSize, sloEtag, toPutManifest, sw, reqRange, hist>>

\* one pass of the loop of deleteAllSegments
DeleteSegment ==
    /\ pc = "deleteAllSegments"
    /\ idx <= Len(manifest)
    /\ LET si      == manifest[idx]
           s       == splitSegPath(si.Name)
           pathMap == ParseProxyPath(req.path)
           newPath == <<pathMap.account, s.container>> \o s.object
       IN  IF s.err
           THEN /\ errs' = <<"invalid slo item">>
                /\ pc' = "deleted"
                /\ UNCHANGED <<trace, idx>>
           ELSE IF ~UrlBuilds(newPath)
           THEN /\ errs' = <<"error building subrequest">>
                /\ pc' = "deleted"
                /\ UNCHANGED <<trace, idx>>
           ELSE \E st \in DeleteStatuses :
                  /\ trace' = Append(trace,
                        Answered(SubrequestEv("DELETE", newPath, "multipart-manifest=delete",
                                              NoHdr, "capture", <<>>),
                                 st, JsonEmpty))
                  /\ IF CascadeGoesOn(st) /\ idx < Len(manifest)
                     THEN idx' = idx + 1 /\ UNCHANGED pc
                     ELSE pc' = "deleted" /\ UNCHANGED idx
                  /\ UNCHANGED errs
    /\ UNCHANGED <<segs, store, req, manifest, totalSize, sloEtag, toPutManifest,
                   sw, reqRange, hist>>

\* what the next handler may answer to the DELETE of the manifest object
DeleteAnswers == {204, 404}

\* handleSloDelete after deleteAllSegments has returned
DeleteForward ==
    /\ pc = "deleted"
    /\ \E st \in DeleteAnswers :
         Finish((IF errs # <<>>
                 THEN SimpleErrorResponse(400, "error deleting slo")
                 ELSE <<>>) \o NextAnswers(st))
    /\ UNCHANGED <<segs, store, req, manifest, idx, errs, totalSize, sloEtag,
                   toPutManifest, sw, reqRange, hist>>

DeleteItems ==
    { SegItem(<<"c", "s1">>, MaxBytes - 1, "e1", NoRange),
      SegItem(<<"", "c", "s2">>, MaxBytes, "e2", << <<1, MaxBytes - 1>> >>),
      SegItem(<<"bad">>, 1, "eb", NoRange),
      SegItem(<<"c", BadEscape>>, 1, "ex", NoRange) }

DeleteStores ==
    { SloObject(m, DigestHdr(GenEtag(m)), NumHdr(GenLength(m))) :
        m \in SeqsUpTo(DeleteItems, MaxItems) }
    \cup { Object(TRUE, "", EmptyStr, NoDigestHdr, NoNumHdr, JsonGarbage), NoStore }

DeleteRequests ==
    { Request("DELETE", f, "", p, NoRange, FALSE, NoDigestHdr, "", "", "", EmptyStr, "", JsonEmpty) :
        f \in {"delete", ""}, p \in {SelfPath, <<Account, "c">>} }

InitDelete ==
    /\ segs = [k \in {S1, S2} |-> NotFoundResp]
    /\ store \in DeleteStores
    /\ req \in DeleteRequests
    /\ InitLocals

NextDelete == ServeHTTP \/ DeleteFetch \/ DeleteSegment \/ DeleteForward

SpecDelete == InitDelete /\ [][NextDelete]_vars

---------------------------------------------------------------------------
(* What the client and the backend observe of the request *)

\* the status the client receives: the first status line written, 0 when
\* the handler wrote none
ClientStatus == IF StatusLines = <<>> THEN 0 ELSE StatusLines[1].status

PutIssued == PersistEvents # <<>>

Subrequests == SelectSeq(trace, LAMBDA e : e.op = "Subrequest")

\* the request is an SLO PUT that meets the preconditions of authoring
SloPutAuthoring ==
    /\ req.method = "PUT"
    /\ req.funcName = "put"
    /\ req.XObjectManifest = EmptyStr
    /\ ParseProxyPath(req.path).object # EmptyStr
    /\ (req.ContentLength # "" \/ req.TransferEncoding = "chunked")
    /\ req.XCopyFrom = ""

\* item k of the client manifest names the object the manifest is PUT to
SelfReference(k) ==
    /\ req.body.kind = "array"
    /\ k \in DOMAIN req.body.items
    /\ req.body.items[k].ok
    /\ LET s == splitSegPath(req.body.items[k].path)
           pathMap == ParseProxyPath(req.path)
       IN  ~s.err /\ s.container = pathMap.container /\ s.object = pathMap.object

\* every item of the client manifest was validated and accepted
AllItemsValid ==
    /\ SloPutAuthoring
    /\ req.body.kind = "array"
    /\ errs = <<>>
    /\ Len(toPutManifest) = Len(req.body.items)

---------------------------------------------------------------------------
(* GET claims *)

\* the ranged GETs of segment objects that feedOutSegments issued
SegmentGets ==
    SelectSeq(trace, LAMBDA e : e.op = "Subrequest" /\ e.method = "GET" /\ e.sink = "forward")

\* the writes on the client's writer
ClientWrites == SelectSeq(trace, LAMBDA e : e.op = "Write")

\* the bytes the segment subrequests put on the client's writer
ForwardedWrites == SelectSeq(trace, LAMBDA e : e.op = "Write" /\ e.by = "sub")

ServedBytes == Flatten([k \in DOMAIN ForwardedWrites |-> ForwardedWrites[k].data])

\* a SegmentDescriptor as the data model has it: its name is container/object
\* and its range, if any, is one inclusive range inside the object
WellFormedSegment(si) ==
    /\ ~splitSegPath(si.Name).err
    /\ UrlBuilds(si.Name)
    /\ \/ si.Range = NoRange
       \/ /\ Len(si.Range) = 1
          /\ 0 <= si.Range[1][1]
          /\ si.Range[1][1] <= si.Range[1][2]
          /\ si.Range[1][2] < si.Bytes

\* the bytes a segment contributes to the large object
ContributingBytes(si) ==
    IF si.Range = NoRange THEN Extent(TrimLeftSlash(si.Name), 0, si.Bytes)
    ELSE Extent(TrimLeftSlash(si.Name), si.Range[1][1], si.Range[1][2] + 1)

BytesOf(M) == Flatten([k \in DOMAIN M |-> ContributingBytes(M[k])])

\* the GET of an SLO was served from the manifest in the variable manifest:
\* the only status line is the 200 of byteFeeder, every segment GET was
\* answered 2xx and every write reached the client
ServedSlo ==
    /\ pc = "done"
    /\ req.method = "GET"
    /\ req.funcName # "get"
    /\ sw.isSlo
    /\ Len(StatusLines) = 1
    /\ StatusLines[1].by = "xlo"
    /\ StatusLines[1].status = 200
    /\ \A k \in DOMAIN manifest : WellFormedSegment(manifest[k])
    /\ \A k \in DOMAIN SegmentGets : SegmentGets[k].status \div 100 = 2
    /\ ~ClientClosed

\* the half-open range [s, e) the client asked for, inside the object
AskedStart == IF req.Range = NoRange THEN 0 ELSE req.Range[1][1]

AskedEnd == IF req.Range = NoRange THEN Len(BytesOf(manifest)) ELSE req.Range[1][2] + 1

AskedInside ==
    \/ req.Range = NoRange
    \/ /\ Len(req.Range) = 1
       /\ req.Range[1][1] <= req.Range[1][2]
       /\ req.Range[1][2] < Len(BytesOf(manifest))

\* C1: for an SLO manifest M and a requested range [s, e) inside it, when
\* every segment subrequest succeeds and returns the extent asked for, the
\* bytes served are bytes(M)[s:e].
C1_ServedBytesAreTheRange ==
    (ServedSlo /\ AskedInside)
        => ServedBytes = SubSeq(BytesOf(manifest), AskedStart + 1, AskedEnd)

\* a range that starts inside one segment and ends inside the next, which
\* has a range of its own
C1_Witness ==
    /\ ServedSlo
    /\ AskedInside
    /\ req.Range # NoRange
    /\ req.Range[1][1] > 0
    /\ Len(SegmentGets) = 2
    /\ manifest[2].Range # NoRange
    /\ AskedEnd < Len(BytesOf(manifest))

\* the status line the middleware wrote carries the sysmeta
SysmetaAnswer ==
    /\ Len(StatusLines) = 1
    /\ StatusLines[1].by = "xlo"
    /\ StatusLines[1].status = sw.status
    /\ StatusLines[1].hdr.ContentLength = sw.hdr.SloSize
    /\ StatusLines[1].hdr.Etag = [quoted |-> TRUE, of |-> sw.hdr.SloEtag]
    /\ SegmentGets = <<>>
    /\ ClientWrites = <<>>

\* C2 (as stated): a HEAD on any object classified SLO is answered with
\* Content-Length = Slo-Size and Etag = quoted Slo-Etag, with no segment
\* subrequest and no body byte.
C2_HeadAnyShortCircuit ==
    (pc = "done" /\ req.method = "HEAD" /\ sw.isSlo) => SysmetaAnswer

\* C2: the same for a HEAD that is not a raw manifest fetch and whose
\* backend response carries Slo-Etag or Slo-Size.
C2_HeadShortCircuit ==
    (/\ pc = "done"
     /\ req.method = "HEAD"
     /\ sw.isSlo
     /\ req.funcName # "get"
     /\ (sw.hdr.SloEtag.present \/ sw.hdr.SloSize.present))
        => SysmetaAnswer

\* a HEAD answered from a response that carries the Slo-Etag alone
C2_Witness ==
    /\ pc = "done"
    /\ req.method = "HEAD"
    /\ sw.isSlo
    /\ req.funcName # "get"
    /\ sw.hdr.SloEtag.present
    /\ ~sw.hdr.SloSize.present
    /\ StatusLines # <<>>

\* the container listing the DLO was built from
Listings ==
    SelectSeq(trace, LAMBDA e : e.op = "Subrequest" /\ e.query = "format=json&prefix")

ListedLength(body) == SumSeq([k \in DOMAIN body.items |-> body.items[k].bytes])

\* a GET of a DLO whose listing was obtained and whose single range starts
\* at or after the total length of the listed segments
DloRangeOutside ==
    /\ pc = "done"
    /\ req.method = "GET"
    /\ sw.isDlo
    /\ ~sw.isSlo
    /\ Len(Listings) = 1
    /\ Listings[1].status = 200
    /\ Listings[1].answer.kind \in {"array", "null"}
    /\ Len(req.Range) = 1
    /\ req.Range[1][1] <= req.Range[1][2]
    /\ req.Range[1][1] >= ListedLength(Listings[1].answer)

\* C8: a GET on a DLO whose Range lies wholly outside [0, totalLen) is
\* answered 400; no 200 header and no segment subrequest follows.
C8_DloRangeOutsideRejected ==
    DloRangeOutside
        => /\ ClientStatus = 400
           /\ \A k \in DOMAIN StatusLines : StatusLines[k].status # 200
           /\ SegmentGets = <<>>

C8_Witness ==
    /\ DloRangeOutside
    /\ ListedLength(Listings[1].answer) > 0
    /\ Len(Listings[1].answer.items) = 2
    /\ ClientStatus = 400

---------------------------------------------------------------------------
(* DELETE claims *)

ManifestFetches ==
    SelectSeq(trace, LAMBDA e : e.op = "Subrequest" /\ e.query = "multipart-manifest=get")

SegmentDeletes ==
    SelectSeq(trace, LAMBDA e : e.op = "Subrequest" /\ e.method = "DELETE")

\* a cascade DELETE that obtained its manifest (kept in the variable manifest)
CascadeFetched ==
    /\ pc = "done"
    /\ req.method = "DELETE"
    /\ req.funcName = "delete"
    /\ Len(ManifestFetches) = 1
    /\ ~buildSloManifest(req.path, [status |-> ManifestFetches[1].status,
                                    body |-> ManifestFetches[1].answer]).err

\* one DELETE subrequest per manifest entry, in manifest order, and after
\* the last of them one call of the next handler
CascadeComplete ==
    /\ Len(SegmentDeletes) = Len(manifest)
    /\ \A k \in DOMAIN manifest :
          SegmentDeletes[k].path = <<Account>> \o TrimLeftSlash(manifest[k].Name)
    /\ Cardinality({k \in DOMAIN trace : trace[k].op = "Next"}) = 1
    /\ \A k \in DOMAIN trace : \A n \in DOMAIN trace :
          (trace[k].op = "Next" /\ trace[n].op = "Subrequest") => n < k

\* C3: every cascade DELETE whose manifest is fetched issues exactly |M|
\* segment DELETEs, one per entry in manifest order, and only after the last
\* of them forwards the original DELETE to the next handler, once.
C3_CascadeAnyManifest == CascadeFetched => CascadeComplete

\* every entry of the manifest names a segment a DELETE can be built for
Deletable(M) ==
    \A k \in DOMAIN M : ~splitSegPath(M[k].Name).err /\ UrlBuilds(M[k].Name)

\* where deleteAllSegments builds every subrequest, the cascade is complete
\* whatever the segment DELETEs answer
CascadeOfBuiltRequests == (CascadeFetched /\ Deletable(manifest)) => CascadeComplete

---------------------------------------------------------------------------
(* PUT claims *)

\* C4: an SLO PUT whose client manifest names, at any index, the object the
\* manifest is written to is answered 400 and the manifest-persisting PUT
\* subrequest is never issued.
C4_SelfReferenceRejected ==
    (pc = "done" /\ SloPutAuthoring /\ \E k \in 1..MaxItems + 1 : SelfReference(k))
        => (ClientStatus = 400 /\ ~PutIssued)

\* the contribution length of a persisted SegmentDescriptor, from its JSON:
\* bytes when it has no range, end - start of its range otherwise
ContributionLength(j) ==
    IF j.range = <<>> THEN j.bytes
    ELSE LET r == ParseRange(j.range[1], j.bytes).ranges[1] IN r.End - r.Start

\* C5: whenever SLO PUT issues the persisting PUT, its
\* X-Object-Sysmeta-Slo-Size is the sum of the contribution lengths of the
\* SegmentDescriptors of the body it persists.
C5_SloSizeIsSum ==
    \A k \in DOMAIN trace :
        (trace[k].op = "Subrequest" /\ trace[k].method = "PUT")
            => /\ trace[k].hdr.SloSize =
                    SumSeq([n \in DOMAIN trace[k].data.items |->
                              ContributionLength(trace[k].data.items[n])])
               /\ trace[k].hdr.SloSize =
                    SumSeq([n \in DOMAIN trace[k].data.items |->
                              segLenHash(UnmarshalSegItem(trace[k].data.items[n])).len])

\* a PUT was persisted whose body holds a segment cut down by its range
C5_Witness ==
    /\ pc = "done"
    /\ PutIssued
    /\ Len(PersistEvents[1].data.items) = 2
    /\ \E n \in DOMAIN PersistEvents[1].data.items :
          /\ PersistEvents[1].data.items[n].range # <<>>
          /\ ContributionLength(PersistEvents[1].data.items[n])
                < PersistEvents[1].data.items[n].bytes

\* C9: if a validation error was recorded for any item during SLO PUT, the
\* client receives 400 and the persisting PUT subrequest is never issued.
C9_ErrorsRejected ==
    (pc = "done" /\ req.method = "PUT" /\ Len(errs) > 0)
        => (ClientStatus = 400 /\ ~PutIssued)

\* C10: with all items valid, a client Etag that differs from the computed
\* SLO etag is answered 422 and the persisting PUT subrequest is not issued.
C10_EtagMismatchRejected ==
    (pc = "done" /\ AllItemsValid /\ req.Etag.present /\ req.Etag.v # Digest(sloEtag))
        => (ClientStatus = 422 /\ ~PutIssued)

\* the hash token of a persisted SegmentDescriptor, from its JSON: hash when
\* it has no range, "hash:range;" otherwise
TokenOf(j) == HashToken(j.hash, IF j.range = <<>> THEN NoRange ELSE j.range[1])

\* C6: whenever SLO PUT issues the persisting PUT, its
\* X-Object-Sysmeta-Slo-Etag is the digest of the hash tokens of the persisted
\* SegmentDescriptors in manifest order, which is the etag byteFeeder
\* recomputes from the persisted manifest.
C6_SloEtagIsDigestOfTokens ==
    \A k \in DOMAIN PersistEvents :
        /\ PersistEvents[k].hdr.SloEtag =
              Digest([n \in DOMAIN PersistEvents[k].data.items |->
                        TokenOf(PersistEvents[k].data.items[n])])
        /\ PersistEvents[k].hdr.SloEtag =
              GenEtag(UnmarshalManifest(PersistEvents[k].data).manifest)

\* a PUT was persisted whose two segments have different hash tokens, one of
\* them with a range
C6_Witness ==
    /\ pc = "done"
    /\ PutIssued
    /\ Len(PersistEvents[1].data.items) = 2
    /\ TokenOf(PersistEvents[1].data.items[1]) # TokenOf(PersistEvents[1].data.items[2])
    /\ PersistEvents[1].data.items[2].range # <<>>

\* C7: the raw form of a manifest persisted by a successful SLO PUT, PUT
\* again against the same segments, is accepted and persists a manifest with
\* the same X-Object-Sysmeta-Slo-Etag and X-Object-Sysmeta-Slo-Size.
C7_RawRoundTrip ==
    (pc = "done" /\ hist.phase = "reput")
        => /\ PutIssued
           /\ \A k \in DOMAIN StatusLines : StatusLines[k].by # "xlo"
           /\ PersistEvents[1].hdr.SloEtag = hist.SloEtag
           /\ PersistEvents[1].hdr.SloSize = hist.SloSize

\* the round trip holds of every manifest that has at least one segment
RoundTripOfSegments ==
    (pc = "done" /\ hist.phase = "reput" /\ hist.raw.items # <<>>) => C7_RawRoundTrip

---------------------------------------------------------------------------
(* Claims on the failure paths of GET *)

\* a GET of an SLO that handleSloGet has to serve from the manifest (no raw
\* manifest fetch, no answer from the sysmeta alone) and whose manifest is
\* not obtained: the refetch gives an error, or the body at hand does not
\* decode
ManifestNotObtained ==
    /\ pc = "done"
    /\ req.method = "GET"
    /\ req.funcName # "get"
    /\ sw.isSlo
    /\ ~AnswersFromSysmeta(req.Conditional /\ sw.status \in {304, 412},
                           sw.hdr.SloEtag, sw.hdr.SloSize)
    /\ IF ManifestFetches # <<>>
       THEN buildSloManifest(req.path, [status |-> ManifestFetches[1].status,
                                        body |-> ManifestFetches[1].answer]).err
       ELSE UnmarshalManifest(sw.body).err

\* C11: on a GET of an SLO whose manifest cannot be obtained the client's
\* response is 400 'invalid slo manifest'; no 200 status is written and no
\* segment subrequest is issued.
C11_NoManifestRejected ==
    ManifestNotObtained
        => /\ ClientStatus = 400
           /\ ClientWrites # <<>>
           /\ ClientWrites[1].data = ErrorBody("invalid slo manifest")
           /\ \A k \in DOMAIN StatusLines : StatusLines[k].status # 200
           /\ SegmentGets = <<>>

\* the positions in trace of the 200 status lines of byteFeeder
Commits ==
    {k \in DOMAIN trace : /\ trace[k].op = "WriteHeader"
                          /\ trace[k].by = "xlo"
                          /\ trace[k].status = 200}

\* a GET that goes to the manifest's segments
Streaming ==
    /\ req.method = "GET"
    /\ req.funcName # "get"
    /\ (sw.isSlo \/ sw.isDlo)

FailedSegments ==
    {k \in DOMAIN trace : /\ trace[k].op = "Subrequest"
                          /\ trace[k].sink = "forward"
                          /\ trace[k].status \div 100 # 2}

\* C13: once a segment subrequest has returned a status that is not 2xx, no
\* further segment subrequest is issued and nothing more is written to the
\* client.
C13_StreamEndsAtFailure ==
    Streaming
        => \A f \in FailedSegments : \A k \in DOMAIN trace :
              k > f => trace[k].op \notin {"Subrequest", "WriteHeader", "Write"}

\* after a segment subrequest answered other than 2xx no subrequest follows,
\* and the one write that follows is the body of that answer
NoSegmentAfterFailure ==
    Streaming
        => \A f \in FailedSegments : \A k \in DOMAIN trace :
              k > f => /\ trace[k].op \in {"Write", "WriteError"}
                       /\ trace[k].by = "sub"
                       /\ k = f + 1

\* C14: once a write of segment bytes to the client has failed, streaming
\* stops and no further segment subrequest is issued.
C14_StreamEndsAtWriteFailure ==
    Streaming
        => \A f \in DOMAIN trace : \A k \in DOMAIN trace :
              (trace[f].op = "WriteError" /\ k > f) => trace[k].op # "Subrequest"

\* C15: within one GET the segment subrequests are issued at strictly
\* increasing manifest indices, each for the entry at its index, one after
\* the other: the body writes of a subrequest come right after it and before
\* the next one, so the bytes reach the client in manifest order.
C15_SegmentsInManifestOrder ==
    Streaming
        => /\ \A i \in DOMAIN SegmentGets : \A j \in DOMAIN SegmentGets :
                i < j => SegmentGets[i].at < SegmentGets[j].at
           /\ \A i \in DOMAIN SegmentGets :
                /\ SegmentGets[i].at \in DOMAIN manifest
                /\ SegmentGets[i].path =
                      <<Account>> \o TrimLeftSlash(manifest[SegmentGets[i].at].Name)
           /\ \A k \in DOMAIN trace :
                (trace[k].op \in {"Write", "WriteError"} /\ trace[k].by = "sub")
                    => /\ k > 1
                       /\ trace[k - 1].op = "Subrequest"
                       /\ trace[k - 1].sink = "forward"
                       /\ trace[k - 1].status \div 100 = 2
                            => \A b \in DOMAIN trace[k].data :
                                  trace[k].data[b].obj =
                                     TrimLeftSlash(manifest[trace[k - 1].at].Name)

\* both entries of a manifest were asked for, the client having gone during
\* the first
C15_Witness ==
    /\ pc = "done"
    /\ Streaming
    /\ Len(SegmentGets) = 2
    /\ SegmentGets[1].at = 1
    /\ SegmentGets[2].at = 2
    /\ ClientClosed

\* the Content-Range is "bytes 0-(C-1)/C" and nothing else
CoversWholeObject(h) ==
    h.tail /\ h.lead = "" /\ h.first = "0" /\ h.end = h.length - 1

\* the refetch table
RefetchTable ==
    IF req.method = "HEAD" THEN TRUE
    ELSE IF req.Range # NoRange /\ sw.status = 416 THEN TRUE
    ELSE IF req.Range # NoRange /\ sw.status \in {200, 206}
    THEN ~CoversWholeObject(sw.hdr.ContentRange)
    ELSE FALSE

\* C16: for every method, Range header, backend status and Content-Range an
\* SLO response reaches handleSloGet with, needToRefetchManifest returns what
\* the refetch table says: true for HEAD, true for a Range with 416, for a
\* Range with 200 or 206 true unless the Content-Range is "bytes 0-(C-1)/C",
\* and false otherwise.
C16_RefetchAsTabled ==
    pc = "handleSloGet" => needToRefetchManifest = RefetchTable

\* the table is followed on every Content-Range that has nothing before
\* its "bytes"
RefetchOfPlainContentRange ==
    (pc = "handleSloGet" /\ sw.hdr.ContentRange.lead \in {"", "bytes */10"})
        => needToRefetchManifest = RefetchTable

\* C17: whenever the ?multipart-manifest=get subrequest of a GET has not
\* returned status 200, or has returned an empty body, buildSloManifest
\* yields the error "Error fetching manifest"; an answer other than 200 that
\* carries a body is not decoded into a manifest.
C17_FetchFailureReported ==
    \A k \in DOMAIN ManifestFetches :
       LET f == ManifestFetches[k]
       IN  (f.status # 200 \/ f.answer.kind = "empty")
              => buildSloManifest(req.path, [status |-> f.status, body |-> f.answer]).error
                   = "Error fetching manifest"

\* an answer with neither status 200 nor a body is reported as such
FetchOfNothingReported ==
    \A k \in DOMAIN ManifestFetches :
       LET f == ManifestFetches[k]
       IN  (f.status # 200 /\ f.answer.kind = "empty")
              => buildSloManifest(req.path, [status |-> f.status, body |-> f.answer]).error
                   = "Error fetching manifest"

\* the client's body is an array of more than n items, all well-formed
MoreItemsThan(n) ==
    /\ req.method = "PUT"
    /\ req.body.kind = "array"
    /\ Len(req.body.items) > n
    /\ \A k \in DOMAIN req.body.items :
          parsePutSloManifest(JsonArray(<<req.body.items[k]>>)).errs = <<>>

TooManySegments(parsed) ==
    \E k \in DOMAIN parsed.errs : parsed.errs[k] = "too many segments"

\* C18: a client manifest of more than maxManifestLen well-formed items is
\* refused by parsePutSloManifest with "too many segments", and handleSloPut
\* never goes on with it as an accepted manifest.
C18_TooManySegmentsRefused ==
    MoreItemsThan(maxManifestLen)
        => /\ TooManySegments(parsePutSloManifest(req.body))
           /\ pc # "putLoop"

\* the parser refuses every manifest of more than maxManifestLen + 1 items
OneMoreThanBoundRefused ==
    MoreItemsThan(maxManifestLen + 1)
        => /\ TooManySegments(parsePutSloManifest(req.body))
           /\ pc # "putLoop"

---------------------------------------------------------------------------
(* Claims on the dispatch of ServeHTTP *)

\* a PUT with an X-Object-Manifest header of the form container/prefix
DloPut ==
    /\ req.method = "PUT"
    /\ req.XObjectManifest # EmptyStr
    /\ isValidDloHeader(req.XObjectManifest)

NextCalls == SelectSeq(trace, LAMBDA e : e.op = "Next")

\* C19: a PUT with a valid X-Object-Manifest and multipart-manifest=put is
\* answered 400 by the middleware, with no call of the next handler and no
\* subrequest; a PUT with a valid X-Object-Manifest and another query is
\* given to the next handler exactly once, with no subrequest and nothing
\* written by the middleware.
C19_DloPutDispatch ==
    DloPut =>
       /\ Subrequests = <<>>
       /\ pc \in {"ServeHTTP", "done"}
       /\ pc = "done" =>
             IF req.funcName = "put"
             THEN /\ NextCalls = <<>>
                  /\ Len(StatusLines) = 1
                  /\ StatusLines[1].status = 400
                  /\ StatusLines[1].by = "xlo"
             ELSE /\ Len(NextCalls) = 1
                  /\ trace[1].op = "Next"
                  /\ \A k \in DOMAIN trace : k > 1 => trace[k].by = "next"

C19_Witness ==
    /\ DloPut
    /\ req.funcName = "put"
    /\ pc = "done"
    /\ Len(StatusLines) = 1
    /\ StatusLines[1].status = 400

\* the response the next handler gave to a GET or HEAD carries neither
\* X-Static-Large-Object: True nor, save on a multipart-manifest=get request,
\* an X-Object-Manifest
Unclassified ==
    /\ req.method \in {"GET", "HEAD"}
    /\ NextCalls # <<>>
    /\ sw.hdr.XStaticLargeObject # "True"
    /\ (sw.hdr.XObjectManifest = EmptyStr \/ req.funcName = "get")

\* the bytes written to the client after the status line
BodyWrites == SelectSeq(trace, LAMBDA e : e.op \in {"Write", "WriteError"})

\* C20: when the response of the next handler to a GET or HEAD is neither an
\* SLO nor a DLO (an X-Object-Manifest on a multipart-manifest=get request
\* included), the client receives the status of the next handler and then
\* its body writes, in order and nothing else; the middleware issues no
\* subrequest and writes nothing itself.
C20_TransparentProxy ==
    Unclassified =>
       /\ ~sw.isSlo /\ ~sw.isDlo
       /\ pc = "done"
       /\ Subrequests = <<>>
       /\ Len(NextCalls) = 1
       /\ trace[1].op = "Next"
       /\ \A k \in DOMAIN trace : k > 1 => trace[k].by = "next"
       /\ Len(StatusLines) = 1
       /\ trace[2].op = "WriteHeader"
       /\ trace[2].status = trace[1].status
       /\ \A k \in DOMAIN trace : k > 2 => trace[k].op = "Write"
       /\ Flatten([k \in DOMAIN BodyWrites |-> BodyWrites[k].data]) = trace[1].data

C20_Witness ==
    /\ Unclassified
    /\ req.method = "GET"
    /\ req.funcName = "get"
    /\ sw.hdr.XObjectManifest # EmptyStr
    /\ pc = "done"
    /\ Len(StatusLines) = 1

\* a plain object is passed through with its two body writes
PlainObjectPassed ==
    /\ Unclassified
    /\ sw.hdr.XObjectManifest = EmptyStr
    /\ pc = "done"
    /\ Len(BodyWrites) = 2

---------------------------------------------------------------------------
(* Claims on the identify writer and on what the handlers commit *)

\* the next handler has answered a GET or HEAD with X-Static-Large-Object: True
AnsweredSlo ==
    /\ req.method \in {"GET", "HEAD"}
    /\ NextCalls # <<>>
    /\ sw.hdr.XStaticLargeObject = "True"

\* C21: whenever the response of the next handler carries
\* X-Static-Large-Object: True, whatever its other headers, the identify
\* writer marks it an SLO, hands neither the status nor any body byte of the
\* next handler to the client, and holds in its buffer every byte the next
\* handler wrote.
C21_SloBodyBuffered ==
    AnsweredSlo =>
       /\ sw.isSlo
       /\ \A k \in DOMAIN trace : trace[k].by # "next"
       /\ Flatten(NextWrites(sw.body)) = NextCalls[1].data

\* the same for the responses that carry no X-Object-Manifest, or are read
\* with multipart-manifest=get
SloAloneBuffered ==
    (AnsweredSlo /\ (sw.hdr.XObjectManifest = EmptyStr \/ req.funcName = "get")) =>
       /\ sw.isSlo
       /\ \A k \in DOMAIN trace : trace[k].by # "next"
       /\ Flatten(NextWrites(sw.body)) = NextCalls[1].data

---------------------------------------------------------------------------
(* Claims on the order and the checks of SLO PUT authoring *)

\* handleSloPut has parsed the client manifest and is in or past its loop
InAuthoring ==
    /\ req.method = "PUT"
    /\ req.funcName = "put"
    /\ pc \in {"putLoop", "putCheck", "done"}
    /\ (manifest # <<>> \/ PersistEvents # <<>>)

HeadIndices == {k \in DOMAIN trace : trace[k].op = "Subrequest" /\ trace[k].method = "HEAD"}

SegmentHeads == SelectSeq(trace, LAMBDA e : e.op = "Subrequest" /\ e.method = "HEAD")

\* C22: the HEAD subrequests of SLO PUT authoring are issued one after the
\* other in the order of the client manifest, at most one per item; the PUT
\* that persists the manifest is issued at most once, and only after the HEAD
\* of the last item has returned; when it is issued, the persisted list has
\* the length and the order of the client manifest.
C22_AuthoringInManifestOrder ==
    InAuthoring =>
       /\ LET heads == SegmentHeads
          IN  /\ Len(heads) <= Len(manifest)
              /\ \A k \in DOMAIN heads :
                    heads[k].path
                       = <<ParseProxyPath(req.path).account>> \o TrimLeftSlash(manifest[k].Path)
       /\ Len(PersistEvents) <= 1
       /\ PersistEvents # <<>> =>
             LET persisted == UnmarshalManifest(PersistEvents[1].data).manifest
                 heads == HeadIndices
             IN  /\ Len(SegmentHeads) = Len(manifest)
                 /\ \A k \in DOMAIN trace :
                       (trace[k].op = "Subrequest" /\ trace[k].method = "PUT")
                          => \A h \in heads : h < k
                 /\ Len(persisted) = Len(manifest)
                 /\ \A k \in DOMAIN persisted : persisted[k].Name = manifest[k].Path

C22_Witness ==
    /\ InAuthoring
    /\ pc = "done"
    /\ PersistEvents # <<>>
    /\ Len(SegmentHeads) = MaxItems
    /\ manifest[1].Path # manifest[2].Path
    /\ StatusLines # <<>>
    /\ StatusLines[1].status = 201

\* the answer to the HEAD of the segment item spm names
HeadOfItem(spm) == HeadOf(splitSegPath(spm.Path).container, splitSegPath(spm.Path).object)

\* the HEAD answered 200 with a Content-Length that is a number
HeadUsable(pw) == pw.status = 200 /\ pw.ContentLength.ok

\* the three conditions on an item against the HEAD of its segment
ItemMatchesHead(spm, pw) ==
    LET pr == ParseRange(spm.Range, pw.ContentLength.n)
    IN  /\ (spm.SizeBytes = 0 \/ spm.SizeBytes = pw.ContentLength.n)
        /\ (spm.Etag = "" \/ spm.Etag = pw.Etag.v)
        /\ (spm.Range = NoRange \/ (~pr.err /\ Len(pr.ranges) = 1))

\* what is persisted for an accepted item
DescriptorOf(spm, pw) ==
    LET pr == ParseRange(spm.Range, pw.ContentLength.n)
    IN  [Name |-> spm.Path, Bytes |-> pw.ContentLength.n, Hash |-> pw.Etag.v,
         Range |-> IF spm.Range = NoRange THEN NoRange
                   ELSE << <<pr.ranges[1].Start, pr.ranges[1].End - 1>> >>,
         SubSlo |-> pw.Slo, ContentType |-> pw.ContentType,
         LastModified |-> pw.LastModified]

\* the items headed so far that are to be accepted, by index
AcceptedSoFar ==
    SelectSeq([k \in 1..Len(SegmentHeads) |-> k],
              LAMBDA k : /\ HeadUsable(HeadOfItem(manifest[k]))
                         /\ ItemMatchesHead(manifest[k], HeadOfItem(manifest[k])))

\* C23: of the manifest items whose HEAD has returned, those accepted into
\* the list to persist are exactly the ones whose HEAD answered 200 with a
\* numeric Content-Length and that match it in size_bytes (0 or equal), etag
\* (empty or equal to the unquoted Etag) and range (empty or exactly one
\* range); each is kept with bytes = the Content-Length of the HEAD, hash =
\* the Etag of the HEAD and range = "start-(end-1)"; and what the PUT
\* subrequest persists is that list.
C23_AcceptedExactlyWhenMatching ==
    InAuthoring =>
       /\ LET accepted == AcceptedSoFar
          IN  /\ Len(toPutManifest) = Len(accepted)
              /\ \A j \in DOMAIN accepted :
                    toPutManifest[j] = DescriptorOf(manifest[accepted[j]],
                                                    HeadOfItem(manifest[accepted[j]]))
       /\ PersistEvents # <<>> =>
             UnmarshalManifest(PersistEvents[1].data).manifest = toPutManifest

C23_Witness ==
    /\ InAuthoring
    /\ pc = "done"
    /\ PersistEvents # <<>>
    /\ Len(manifest) = 2
    /\ manifest[1].SizeBytes = 0 /\ manifest[1].Etag = ""
    /\ manifest[2].Range # NoRange /\ manifest[2].Etag # ""
    /\ toPutManifest[2].Range # manifest[2].Range
    /\ HeadOfItem(manifest[2]).Etag.q

---------------------------------------------------------------------------
(* Claims on the cascade DELETE *)

\* a cascade DELETE that has made its manifest subrequest
CascadeAsked ==
    /\ req.method = "DELETE"
    /\ req.funcName = "delete"
    /\ ManifestFetches # <<>>

\* the manifest subrequest did not give a manifest: it answered another
\* status than 200, or its body is empty or is no manifest
FetchGaveNoManifest ==
    \/ ManifestFetches[1].status # 200
    \/ UnmarshalManifest(ManifestFetches[1].answer).err

\* the client has a 400 from the middleware and nothing else was done
CascadeRefused ==
    /\ pc = "done"
    /\ Len(StatusLines) = 1
    /\ StatusLines[1].status = 400
    /\ StatusLines[1].by = "xlo"
    /\ SegmentDeletes = <<>>
    /\ NextCalls = <<>>

\* C24: when the fetch of the manifest fails on a cascade DELETE, the client
\* receives 400, no segment DELETE subrequest is issued and the DELETE is not
\* given to the next handler.
C24_FailedFetchRefused ==
    (CascadeAsked /\ FetchGaveNoManifest) => CascadeRefused

\* the cascade is refused whenever buildSloManifest returns an error
FetchErrorRefused ==
    (CascadeAsked /\ buildSloManifest(req.path, [status |-> ManifestFetches[1].status,
                                                  body |-> ManifestFetches[1].answer]).err)
        => CascadeRefused

\* what the middleware itself has written to the client
WrittenByXlo ==
    SelectSeq(trace, LAMBDA e : e.op \in {"WriteHeader", "Write"} /\ e.by = "xlo")

\* C25: in a cascade DELETE whose manifest was fetched, nothing of the
\* per-segment phase reaches the client: the middleware writes no status and
\* no body itself, and the client's response is the one status line and the
\* body of the next handler's answer to the original DELETE.
C25_CascadeFailuresSwallowed ==
    CascadeFetched =>
       /\ WrittenByXlo = <<>>
       /\ Len(NextCalls) = 1
       /\ Len(StatusLines) = 1
       /\ StatusLines[1].by = "next"

\* the statuses of the segment DELETEs never reach the client
DeleteStatusesSwallowed ==
    (CascadeFetched /\ Deletable(manifest)) =>
       /\ WrittenByXlo = <<>>
       /\ Len(NextCalls) = 1
       /\ Len(StatusLines) = 1
       /\ StatusLines[1].by = "next"

---------------------------------------------------------------------------
(* Claims on what byteFeeder commits and feedOutSegments asks for *)

\* the total length byteFeeder works with: the Slo-Size sysmeta when it is
\* a number and the Slo-Etag sysmeta is there, the sum over the manifest
\* otherwise
TotalLength ==
    IF sw.isSlo /\ sw.hdr.SloEtag.present /\ sw.hdr.SloSize.present /\ sw.hdr.SloSize.ok
    THEN sw.hdr.SloSize.n
    ELSE GenLength(manifest)

\* the half-open range to emit
EmitRange ==
    IF req.Range = NoRange THEN [Start |-> 0, End |-> TotalLength]
    ELSE ParseRange(req.Range, TotalLength).ranges[1]

\* C26: in every GET byteFeeder serves, the Content-Length committed to the
\* client is end - start of the range to emit ({0, total length} without a
\* Range header, the one parsed range with it), and the status byteFeeder
\* commits is 200, never 206, for ranged requests too.
C26_ContentLengthOfRange ==
    Streaming =>
       /\ \A k \in Commits :
             trace[k].hdr.ContentLength = NumHdr(EmitRange.End - EmitRange.Start)
       /\ \A k \in DOMAIN trace :
             (trace[k].op = "WriteHeader" /\ trace[k].by = "xlo")
                => trace[k].status # 206
       /\ (pc = "feedOutSegments" /\ idx = 1) => reqRange = EmitRange

C26_Witness ==
    /\ Streaming
    /\ Commits # {}
    /\ req.Range # NoRange
    /\ EmitRange.Start > 0
    /\ EmitRange.End < TotalLength
    /\ SegmentGets # <<>>

---------------------------------------------------------------------------
(* Claims on the whole of a request *)

\* C27: on every path of a request a status line is written to the client's
\* writer at most once: after an error status of its own the middleware
\* writes no second status, issues no subrequest into the client's writer
\* and does not call the next handler.
C27_OneStatusLine ==
    /\ Len(StatusLines) <= 1
    /\ \A e \in DOMAIN trace : \A k \in DOMAIN trace :
          (/\ trace[e].op = "WriteHeader"
           /\ trace[e].by = "xlo"
           /\ trace[e].status \in {400, 422}
           /\ k > e)
             => /\ trace[k].op # "WriteHeader"
                /\ trace[k].op # "Next"
                /\ ~(trace[k].op = "Subrequest" /\ trace[k].sink = "client")

\* C28: every segment subrequest of feedOutSegments carries one range
\* "bytes=a-b" with a <= b that lies inside the extent of its manifest entry
\* (segmentRange.Start <= a and b <= segmentRange.End - 1), whatever the
\* manifest and the request range, also when the request range ends on a
\* segment boundary.
C28_SubrequestRangeInsideSegment ==
    \A k \in DOMAIN SegmentGets :
       LET g  == SegmentGets[k]
           sr == makeRange(manifest[g.at])
       IN  /\ Len(g.hdr.Range) = 1
           /\ g.hdr.Range[1][1] <= g.hdr.Range[1][2]
           /\ sr.Start <= g.hdr.Range[1][1]
           /\ g.hdr.Range[1][2] <= sr.End - 1

\* the range asked of a segment starts and ends inside the entry's extent,
\* and is at worst empty: "bytes=a-(a-1)"
SubrequestRangeAtWorstEmpty ==
    \A k \in DOMAIN SegmentGets :
       LET g  == SegmentGets[k]
           sr == makeRange(manifest[g.at])
       IN  /\ Len(g.hdr.Range) = 1
           /\ g.hdr.Range[1][1] <= g.hdr.Range[1][2] + 1
           /\ sr.Start <= g.hdr.Range[1][1]
           /\ g.hdr.Range[1][2] <= sr.End - 1

\* C29: a HEAD request on an object classified DLO puts no body byte of a
\* segment on the client's writer and issues no segment GET subrequest; the
\* container listing is the only subrequest it may make.
C29_HeadOfDloAsksNoSegment ==
    (req.method = "HEAD" /\ sw.isDlo /\ ~sw.isSlo)
        => /\ SegmentGets = <<>>
           /\ ForwardedWrites = <<>>
           /\ \A k \in DOMAIN Subrequests : Subrequests[k].query = "format=json&prefix"

----------------------------------------------------------------------------
(* One request from arrival to return: ServeHTTP and every handler it may  *)
(* dispatch to, over the requests of all three methods                     *)

\* the steps of ServeHTTP and of the handlers it calls; each step makes at
\* most one subrequest or one call of the next handler and goes on when that
\* call has returned
Handling ==
    \/ ServeHTTP
    \/ PutParse \/ PutItem \/ PutFinish
    \/ CallNext \/ handleSloGet \/ handleDloGet \/ FeedSegment
    \/ DeleteFetch \/ DeleteSegment \/ DeleteForward

\* GET and HEAD requests, plain or for the manifest itself, whole or ranged
SmallGetRequests ==
    { GetRequest(me, f, fo, r, FALSE) :
        me \in {"GET", "HEAD"}, f \in {"", "get"}, fo \in {"", "raw"},
        r \in {NoRange, << <<0, 1>> >>} }

\* PUT requests: client manifests of a whole segment, a ranged segment and a
\* segment path without a container, and the requests that miss one of the
\* preconditions of authoring
SmallItems ==
    { PutItemJson(TRUE, <<"", "c", "s1">>, "", 0, NoRange),
      PutItemJson(TRUE, <<"", "c", "s2">>, "", 0, << <<0, 0>> >>),
      PutItemJson(TRUE, <<"s1">>, "", 0, NoRange) }

SmallPutRequests ==
    { Request("PUT", "put", "", SelfPath, NoRange, FALSE, NoDigestHdr, "10", "", "",
              EmptyStr, "", b) :
        b \in {JsonNull} \cup {JsonArray(s) : s \in SeqsUpTo(SmallItems, MaxItems)} }
    \cup
    { r \in PutRequests : r.body = OneItemBody /\ r.Etag = NoDigestHdr }

\* a request of any of the three kinds, over the objects its kind is served
\* from; the client manifests of a PUT have at most MaxItems items
InitRequest ==
    \/ /\ segs \in SegStates
       /\ store = NoStore
       /\ req \in SmallPutRequests
       /\ InitLocals
    \/ /\ segs = [k \in {S1, S2} |-> NotFoundResp]
       /\ store \in SmallStores
       /\ req \in SmallGetRequests
       /\ InitLocals
    \/ InitDelete

NextRequest == Handling \/ RawGet \/ RePut

\* every subrequest and every call of the next handler returns, so a handler
\* that has a step to take takes it
SpecRequest == InitRequest /\ [][NextRequest]_vars /\ WF_vars(Handling)

\* the subrequests of the request being handled are no more than the claim
\* allows for its method, |M| being the length of the manifest at hand
SubrequestsBounded ==
    LET subs == Subrequests
        n == Len(manifest)
        count(P(_)) == Len(SelectSeq(subs, P))
        fetches == count(LAMBDA e : e.query \in {"multipart-manifest=get", "format=json&prefix"})
    IN  /\ req.method \in {"GET", "HEAD"}
            => /\ count(LAMBDA e : e.method = "GET" /\ e.sink = "forward") <= n
               /\ fetches <= 1
               /\ Len(subs) <= n + 1
        /\ req.method = "PUT"
            => /\ count(LAMBDA e : e.method = "HEAD") <= n
               /\ count(LAMBDA e : e.method = "PUT") <= 1
               /\ Len(subs) <= n + 1
        /\ req.method = "DELETE"
            => /\ fetches <= 1
               /\ count(LAMBDA e : e.method = "DELETE") <= n
               /\ Len(subs) <= n + 1
        /\ req.method \in {"GET", "HEAD", "PUT", "DELETE"} \/ subs = <<>>

\* C30: provided every subrequest and every call of the next handler
\* returns, the handling of a request terminates, and the subrequests it has
\* issued are bounded by the manifest length: at most |M| segment GETs and one
\* manifest refetch or listing for GET and HEAD, at most |M| segment HEADs and
\* one persisting PUT for an SLO PUT, one manifest fetch and at most |M|
\* segment DELETEs for a cascade DELETE.
C30_TerminatesWithinBound ==
    /\ []SubrequestsBounded
    /\ (pc # "done") ~> (pc = "done")

\* a request has returned after one subrequest for the manifest and one for
\* each of its two or more segments
C30_Witness ==
    /\ pc = "done"
    /\ Len(manifest) >= 2
    /\ Len(Subrequests) = Len(manifest) + 1

====
